---- MODULE Spec2Model ----
(***************************************************************************)
(* Model of foxdalas/openai-exporter (src/main.go).                        *)
(*                                                                         *)
(* src/main.go holds two revisions of the exporter:                        *)
(*   - the ledger revision (lines 1-334): updateMetric with the           *)
(*     usageState ledger, and collect driven by the lastScrape cursor;    *)
(*   - the lookback-window revision (lines 336-653): collect queries      *)
(*     [now - queryOffset, now) and fetchUsageData adds every record      *)
(*     straight to the counter.                                           *)
(*                                                                         *)
(* Seven specifications:                                                   *)
(*   Spec          the ledger revision: main, collect, fetchUsageData,    *)
(*                 updateMetric, the upstream and the wall clock;         *)
(*   SpecUpstream  Spec with an upstream that also answers with an error  *)
(*                 status or with pages that repeat, under the fairness   *)
(*                 of the scheduler;                                      *)
(*   SpecUM        updateMetric called directly by concurrent callers     *)
(*                 with arguments drawn from small sets;                  *)
(*   SpecUMFair    SpecUM under the fairness of the scheduler and of the  *)
(*                 mutex;                                                 *)
(*   SpecLookback  the lookback-window revision;                          *)
(*   SpecResolve   the project name resolver, ensureProjectName, called   *)
(*                 by concurrent callers;                                 *)
(*   SpecFn        operations applied on their own to arguments drawn     *)
(*                 from small sets: StringOrBool.UnmarshalJSON, the       *)
(*                 decoding of a usage record, dayBoundsUTC, and          *)
(*                 NewExporter with main's start-up.                      *)
(***************************************************************************)
EXTENDS Integers, Sequences, FiniteSets, TLC

VARIABLES
    now,            \* the wall clock, time.Now().Unix()
    lastScrape,     \* main.go:55, the scrape cursor
    scrapeInterval, \* main.go:69, the -scrape.interval flag, seconds
    usageState,     \* main.go:54, the ledger: compositeKey -> value
    tokensTotal,    \* main.go:82, the counter vector: label set -> value
    stateMu,        \* main.go:52, the ledger lock: its holder or "free"
    pc,             \* position of every task (goroutine)
    call,           \* updateMetric's parameters, per task
    fetch,          \* fetchUsageData's locals, per task
    cpc,            \* position of collect
    win,            \* collect's locals startTime, endTime; the sleep's start; the cycle number
    obs,            \* history: per compositeKey, the calls that returned, in order
    incs,           \* history: per compositeKey, the counter increments made
    fetched,        \* history: per resource type and window, how its fetches ended
    drawn,          \* history: number of inputs drawn so far: direct calls or
                    \* upstream records, and follow-up pages
    projectNames,   \* the name cache: project id -> name
    resolve,        \* ensureProjectName's parameter and locals, per caller
    netCalls,       \* history: per project id, the reference fetches made
    input,          \* the operation applied in SpecFn and its argument
    output          \* what the operation returned

\* the state of the name resolver, and of the operations applied on their own
resolverVars == <<projectNames, resolve, netCalls>>
fnVars == <<input, output>>

vars == <<now, lastScrape, scrapeInterval, usageState, tokensTotal, stateMu,
          pc, call, fetch, cpc, win, obs, incs, fetched, drawn,
          projectNames, resolve, netCalls, input, output>>

----------------------------------------------------------------------------
(* Bounds of the model *)

\* number of resource types modelled, a prefix of usageEndpoints
NumEndpoints == 2
\* the wall clock stops advancing MaxTicks ticks after the earliest start
MaxTicks == 2
\* number of direct updateMetric calls made in SpecUM
MaxCalls == 2
\* number of follow-up pages (answers with has_more) the upstream serves over a run
MaxPages == 1
\* number of usage records the upstream reports over a run
MaxRecords == 1
\* largest token count the upstream reports
MaxValue == 1
\* number of ensureProjectName calls made in SpecResolve
MaxResolves == 3
\* longest JSON string decoded in SpecFn, in characters
MaxStrLen == 2

(* Program constants *)

\* main.go:291, 306: the width of a window and of a bucket (bucket_width=1m)
BucketWidth == 60
\* main.go:314: time.Round(time.Minute) rounds at the half minute; the clock
\* of the model advances in half minutes
TickStep == BucketWidth \div 2
\* the earliest wall-clock time at which main starts
Epoch == 2 * BucketWidth
MaxNow == Epoch + MaxTicks * TickStep

\* main.go:72-80
AllEndpoints ==
    << [Path |-> "completions", Name |-> "completions"],
       [Path |-> "embeddings", Name |-> "embeddings"],
       [Path |-> "moderations", Name |-> "moderations"],
       [Path |-> "images", Name |-> "images"],
       [Path |-> "audio_speeches", Name |-> "audio_speeches"],
       [Path |-> "audio_transcriptions", Name |-> "audio_transcriptions"],
       [Path |-> "vector_stores", Name |-> "vector_stores"] >>

usageEndpoints == SubSeq(AllEndpoints, 1, NumEndpoints)

\* one task (goroutine) per resource type, named by the endpoint's path
Tasks == {usageEndpoints[i].Path : i \in 1..Len(usageEndpoints)}

\* main.go:256-260: the five sub-measures, in the order of the calls
TokenTypes == <<"input", "output", "input_cached", "input_audio", "output_audio">>

Values == 0..MaxValue

----------------------------------------------------------------------------
(* Helpers *)

\* strings.Join(parts, sep)
RECURSIVE Join(_, _)
Join(parts, sep) ==
    IF Len(parts) = 0 THEN ""
    ELSE IF Len(parts) = 1 THEN parts[1]
    ELSE parts[1] \o sep \o Join(Tail(parts), sep)

\* main.go:161-168
mergeLabels(base, key, value) ==
    [k \in DOMAIN base \cup {key} |-> IF k = key THEN value ELSE base[k]]

\* mutant: the key does not name the sub-measure
compositeKeyNoTokenType(labels, tokenType, bucketStart) ==
    Join(<< labels["operation"],
            ToString(bucketStart),
            labels["project_id"],
            labels["user_id"],
            labels["api_key_id"],
            labels["model"],
            labels["batch"] >>, "|")

\* main.go:174-183: updateMetric's compositeKey
compositeKey(labels, tokenType, bucketStart) ==
    Join(<< labels["operation"],
            ToString(bucketStart),
            labels["project_id"],
            labels["user_id"],
            labels["api_key_id"],
            labels["model"],
            labels["batch"],
            tokenType >>, "|")

\* a map m with m[k] set to v (Go: m[k] = v)
MapSet(m, k, v) == [x \in DOMAIN m \cup {k} |-> IF x = k THEN v ELSE m[x]]

\* a map of sequences with v appended to the sequence of k
MapAppend(m, k, v) ==
    MapSet(m, k, IF k \in DOMAIN m THEN Append(m[k], v) ELSE <<v>>)

\* tokensTotal.With(series).Add(v): the series is created at 0 when new
CounterAdd(c, series, v) ==
    MapSet(c, series, (IF series \in DOMAIN c THEN c[series] ELSE 0) + v)

EmptyMap == [x \in {} |-> 0]

RECURSIVE SumSeq(_)
SumSeq(s) == IF Len(s) = 0 THEN 0 ELSE Head(s) + SumSeq(Tail(s))

NoCall == [labels |-> EmptyMap, tokenType |-> "", bucketStart |-> 0,
           bucketEnd |-> 0, newValue |-> 0, compositeKey |-> "",
           closed |-> FALSE, added |-> 0]

\* fetchUsageData's locals: the window, nextPage, the number of pages
\* decoded, the updateMetric calls of the decoded page still to make, has_more
\* of the last response, whether the call returned an error; and three
\* history fields: the updateMetric calls that have returned, the number of
\* updateMetric calls the decoded pages asked for, and the number of
\* requests sent (client.Do calls), sent: the requests, got: the pages decoded
NoFetch == [startTime |-> 0, endTime |-> 0, nextPage |-> "", page |-> 0,
            todo |-> <<>>, HasMore |-> FALSE, err |-> FALSE, calls |-> <<>>,
            decoded |-> 0, requests |-> 0, sent |-> <<>>, got |-> <<>>]

\* the callers of ensureProjectName
Callers == {"caller_1", "caller_2"}

\* ensureProjectName's parameter and locals: the project id, the name looked
\* up or fetched, the result; and two history fields: the number of
\* reference fetches the call made, and the caller's previous call (its
\* project id, its result and its number of fetches)
NoPrev == [projectID |-> "", result |-> "", fetches |-> 0, called |-> FALSE]

NoResolve == [pc |-> "idle", projectID |-> "", name |-> "", result |-> "",
              fetches |-> 0, prev |-> NoPrev]

\* no call of ensureProjectName is made
ResolverIdle ==
    /\ projectNames = EmptyMap
    /\ resolve = [c \in Callers |-> NoResolve]
    /\ netCalls = EmptyMap

\* no operation is applied on its own
NoInput == [op |-> "none"]
NoOutput == [op |-> "none"]

FnIdle ==
    /\ input = NoInput
    /\ output = NoOutput

----------------------------------------------------------------------------
(* updateMetric, main.go:173-203, one action per step of a task t.          *)
(* call[t] holds the parameters, the key, and two history fields: closed   *)
(* (whether bucketEnd <= now held when the call read the clock) and added  *)
(* (what the call passed to Add, 0 if it did not call it).                 *)

\* the counter series of a call: mergeLabels(labels, "token_type", tokenType)
SeriesOf(c) == mergeLabels(c.labels, "token_type", c.tokenType)

\* the history entry of a call that returns
ObsOf(c) ==
    [closed |-> c.closed, value |-> c.newValue, inc |-> c.added,
     bucketStart |-> c.bucketStart, series |-> SeriesOf(c)]

\* mutant: no bucket is taken for open, so open buckets are processed too
BucketOpenNever(bucketEnd, t) == FALSE

\* mutant: a bucket that ends at this very second is taken for open
BucketOpenOrNow(bucketEnd, t) == bucketEnd >= t

\* main.go:187: the bucket is not yet completed
BucketOpen(bucketEnd, t) == bucketEnd > t

\* main.go:174-190: build the key, read the clock, skip an open bucket
UMNow(t) ==
    /\ pc[t] = "um_now"
    /\ LET c == [call[t] EXCEPT !.closed = (call[t].bucketEnd <= now)] IN
       /\ call' = [call EXCEPT ![t] = c]
       /\ IF BucketOpen(c.bucketEnd, now)
          THEN /\ pc' = [pc EXCEPT ![t] = "um_ret"]
               /\ obs' = MapAppend(obs, c.compositeKey, ObsOf(c))
          ELSE /\ pc' = [pc EXCEPT ![t] = "um_lock"]
               /\ obs' = obs
    /\ UNCHANGED <<now, lastScrape, scrapeInterval, usageState, tokensTotal,
                   stateMu, fetch, cpc, win, incs, fetched, drawn,
                   resolverVars, fnVars>>

\* mutant: the lock is taken without waiting for its holder
UMLockNoWait(t) ==
    /\ pc[t] = "um_lock"
    /\ stateMu' = t
    /\ pc' = [pc EXCEPT ![t] = "um_exists"]
    /\ UNCHANGED <<now, lastScrape, scrapeInterval, usageState, tokensTotal,
                   call, fetch, cpc, win, obs, incs, fetched, drawn,
                   resolverVars, fnVars>>

\* main.go:192: stateMu.Lock()
UMLock(t) ==
    /\ pc[t] = "um_lock"
    /\ stateMu = "free"
    /\ stateMu' = t
    /\ pc' = [pc EXCEPT ![t] = "um_exists"]
    /\ UNCHANGED <<now, lastScrape, scrapeInterval, usageState, tokensTotal,
                   call, fetch, cpc, win, obs, incs, fetched, drawn,
                   resolverVars, fnVars>>

\* mutant: the ledger is never consulted
ExistsNever(ledger, key) == FALSE

\* main.go:196: _, exists := usageState[compositeKey]
Exists(ledger, key) == key \in DOMAIN ledger

\* mutant: the early return of a processed bucket keeps the lock
UMExistsNoUnlock(t) ==
    /\ pc[t] = "um_exists"
    /\ IF Exists(usageState, call[t].compositeKey)
       THEN /\ pc' = [pc EXCEPT ![t] = "um_ret"]
            /\ stateMu' = stateMu
            /\ obs' = MapAppend(obs, call[t].compositeKey, ObsOf(call[t]))
       ELSE /\ pc' = [pc EXCEPT ![t] = "um_add"]
            /\ stateMu' = stateMu
            /\ obs' = obs
    /\ UNCHANGED <<now, lastScrape, scrapeInterval, usageState, tokensTotal,
                   call, fetch, cpc, win, incs, fetched, drawn,
                   resolverVars, fnVars>>

\* mutant: a processed bucket is published again by its difference to the
\* recorded value, with no floor at zero
UMExistsDelta(t) ==
    /\ pc[t] = "um_exists"
    /\ IF Exists(usageState, call[t].compositeKey)
       THEN /\ tokensTotal' = CounterAdd(tokensTotal, SeriesOf(call[t]),
                    call[t].newValue - usageState[call[t].compositeKey])
            /\ usageState' = MapSet(usageState, call[t].compositeKey, call[t].newValue)
            /\ pc' = [pc EXCEPT ![t] = "um_ret"]
            /\ stateMu' = "free"
            /\ obs' = MapAppend(obs, call[t].compositeKey, ObsOf(call[t]))
       ELSE /\ pc' = [pc EXCEPT ![t] = "um_add"]
            /\ UNCHANGED <<stateMu, obs, usageState, tokensTotal>>
    /\ UNCHANGED <<now, lastScrape, scrapeInterval,
                   call, fetch, cpc, win, incs, fetched, drawn,
                   resolverVars, fnVars>>

\* main.go:196-199: an already processed bucket returns; the deferred
\* Unlock of line 193 runs on the return
UMExists(t) ==
    /\ pc[t] = "um_exists"
    /\ IF Exists(usageState, call[t].compositeKey)
       THEN /\ pc' = [pc EXCEPT ![t] = "um_ret"]
            /\ stateMu' = "free"
            /\ obs' = MapAppend(obs, call[t].compositeKey, ObsOf(call[t]))
       ELSE /\ pc' = [pc EXCEPT ![t] = "um_add"]
            /\ stateMu' = stateMu
            /\ obs' = obs
    /\ UNCHANGED <<now, lastScrape, scrapeInterval, usageState, tokensTotal,
                   call, fetch, cpc, win, incs, fetched, drawn,
                   resolverVars, fnVars>>

\* main.go:201: tokensTotal.With(...).Add(newValue)
UMAdd(t) ==
    /\ pc[t] = "um_add"
    /\ tokensTotal' = CounterAdd(tokensTotal, SeriesOf(call[t]), call[t].newValue)
    /\ incs' = MapAppend(incs, call[t].compositeKey, call[t].newValue)
    /\ call' = [call EXCEPT ![t].added = call[t].newValue]
    /\ pc' = [pc EXCEPT ![t] = "um_store"]
    /\ UNCHANGED <<now, lastScrape, scrapeInterval, usageState, stateMu,
                   fetch, cpc, win, obs, fetched, drawn,
                   resolverVars, fnVars>>

\* mutant: the store keeps only the newest entry of the ledger
UMStorePrunes(t) ==
    /\ pc[t] = "um_store"
    /\ usageState' = MapSet(EmptyMap, call[t].compositeKey, call[t].newValue)
    /\ stateMu' = "free"
    /\ pc' = [pc EXCEPT ![t] = "um_ret"]
    /\ obs' = MapAppend(obs, call[t].compositeKey, ObsOf(call[t]))
    /\ UNCHANGED <<now, lastScrape, scrapeInterval, tokensTotal,
                   call, fetch, cpc, win, incs, fetched, drawn,
                   resolverVars, fnVars>>

\* main.go:202-203: usageState[compositeKey] = newValue, then the deferred
\* Unlock of line 193
UMStore(t) ==
    /\ pc[t] = "um_store"
    /\ usageState' = MapSet(usageState, call[t].compositeKey, call[t].newValue)
    /\ stateMu' = "free"
    /\ pc' = [pc EXCEPT ![t] = "um_ret"]
    /\ obs' = MapAppend(obs, call[t].compositeKey, ObsOf(call[t]))
    /\ UNCHANGED <<now, lastScrape, scrapeInterval, tokensTotal,
                   call, fetch, cpc, win, incs, fetched, drawn,
                   resolverVars, fnVars>>

\* the call record of updateMetric(labels, tokenType, bucketStart, bucketEnd, newValue)
CallOf(labels, tokenType, bucketStart, bucketEnd, newValue) ==
    [labels |-> labels, tokenType |-> tokenType, bucketStart |-> bucketStart,
     bucketEnd |-> bucketEnd, newValue |-> newValue,
     compositeKey |-> compositeKey(labels, tokenType, bucketStart),
     closed |-> FALSE, added |-> 0]

\* time passes, up to a limit
ClockTick(limit) ==
    /\ now < limit
    /\ now' = now + TickStep
    /\ UNCHANGED <<lastScrape, scrapeInterval, usageState, tokensTotal, stateMu,
                   pc, call, fetch, cpc, win, obs, incs, fetched, drawn,
                   resolverVars, fnVars>>

----------------------------------------------------------------------------
(* SpecUM: updateMetric called directly, as main_test.go:159-197 does, by   *)
(* concurrent callers                                                       *)

\* main_test.go:163-171 (the labels fetchUsageData builds, main.go:247-254)
TestLabels ==
    [model |-> "gpt-4", operation |-> "completions", project_id |-> "proj-123",
     user_id |-> "user-456", api_key_id |-> "key-789", batch |-> "false"]

\* the buckets the callers pass: one closed from the start (its end is the
\* earliest clock value), one that closes while the clock runs
CallBuckets ==
    { [start |-> Epoch - BucketWidth, end |-> Epoch],
      [start |-> Epoch, end |-> Epoch + BucketWidth] }

CallTokenTypes == {TokenTypes[1], TokenTypes[2]}

NoneDrawn == [inputs |-> 0, pages |-> 0]

NoWin == [startTime |-> 0, endTime |-> 0, slept |-> 0, cycle |-> 0]

InitUM ==
    /\ now = Epoch - TickStep
    /\ lastScrape = 0
    /\ scrapeInterval = BucketWidth
    /\ usageState = EmptyMap
    /\ tokensTotal = EmptyMap
    /\ stateMu = "free"
    /\ pc = [t \in Tasks |-> "idle"]
    /\ call = [t \in Tasks |-> NoCall]
    /\ fetch = [t \in Tasks |-> NoFetch]
    /\ cpc = "none"
    /\ win = NoWin
    /\ obs = EmptyMap
    /\ incs = EmptyMap
    /\ fetched = EmptyMap
    /\ drawn = NoneDrawn
    /\ ResolverIdle
    /\ FnIdle

\* a caller calls updateMetric
Call(t) ==
    /\ pc[t] = "idle"
    /\ drawn.inputs < MaxCalls
    /\ \E b \in CallBuckets, tt \in CallTokenTypes, v \in Values :
          call' = [call EXCEPT ![t] = CallOf(TestLabels, tt, b.start, b.end, v)]
    /\ pc' = [pc EXCEPT ![t] = "um_now"]
    /\ drawn' = [drawn EXCEPT !.inputs = @ + 1]
    /\ UNCHANGED <<now, lastScrape, scrapeInterval, usageState, tokensTotal,
                   stateMu, fetch, cpc, win, obs, incs, fetched,
                   resolverVars, fnVars>>

\* updateMetric has returned to the caller
CallReturn(t) ==
    /\ pc[t] = "um_ret"
    /\ pc' = [pc EXCEPT ![t] = "idle"]
    /\ UNCHANGED <<now, lastScrape, scrapeInterval, usageState, tokensTotal,
                   stateMu, call, fetch, cpc, win, obs, incs, fetched, drawn,
                   resolverVars, fnVars>>

\* the clock runs until every bucket the callers pass is closed
TickUM == ClockTick(Epoch + BucketWidth)

NextUM ==
    \/ TickUM
    \/ \E t \in Tasks : Call(t)
    \/ \E t \in Tasks : UMNow(t)
    \/ \E t \in Tasks : UMLock(t)
    \/ \E t \in Tasks : UMExists(t)
    \/ \E t \in Tasks : UMAdd(t)
    \/ \E t \in Tasks : UMStore(t)
    \/ \E t \in Tasks : CallReturn(t)

SpecUM == InitUM /\ [][NextUM]_vars

\* SpecUM with the scheduling the runtime gives: a goroutine that can run
\* does run, and a goroutine waiting in Lock gets the mutex when it is
\* released again and again (sync.Mutex hands the mutex to a waiter that
\* has waited for more than a millisecond)
SpecUMFair ==
    /\ SpecUM
    /\ \A t \in Tasks :
          /\ SF_vars(UMLock(t))
          /\ WF_vars(UMNow(t))
          /\ WF_vars(UMExists(t))
          /\ WF_vars(UMAdd(t))
          /\ WF_vars(UMStore(t))

----------------------------------------------------------------------------
(* The upstream usage API, as fetchUsageData decodes its answers           *)
(* (APIResponse, Bucket, UsageResult: main.go:114-141)                     *)

\* a *string field (main.go:136-139): nil for a missing or null JSON value,
\* else a pointer to the string
Nil == <<>>
Ptr(str) == <<str>>

\* main.go:279-284
deref(s) == IF s = Nil THEN "unknown" ELSE s[1]

\* the usage records the upstream may report for a bucket
UpstreamResults ==
    { [InputTokens |-> MaxValue, OutputTokens |-> 1, InputCachedTokens |-> 0,
       InputAudioTokens |-> 0, OutputAudioTokens |-> 0,
       ProjectID |-> Nil, UserID |-> Nil, APIKeyID |-> Nil,
       Model |-> Ptr("gpt-4"), Batch |-> "false"] }

\* the buckets of width 1m the upstream reports for the window [s, e)
RECURSIVE WindowBuckets(_, _)
WindowBuckets(s, e) ==
    IF s >= e THEN <<>>
    ELSE << [StartTime |-> s, EndTime |-> s + BucketWidth] >>
         \o WindowBuckets(s + BucketWidth, e)

\* the number of records of a page
RECURSIVE RecordCount(_)
RecordCount(data) ==
    IF data = <<>> THEN 0 ELSE Len(Head(data).Results) + RecordCount(Tail(data))

\* the pages the upstream may answer to a request for the window [s, e),
\* after having served n follow-up pages: every bucket of the window with no
\* record or with one, has_more only while follow-up pages remain
UpstreamPages(s, e, n) ==
    LET bs == WindowBuckets(s, e) IN
    { [Data |-> [i \in 1..Len(bs) |->
                    [StartTime |-> bs[i].StartTime, EndTime |-> bs[i].EndTime,
                     Results |-> rs[i]]],
       HasMore |-> more,
       NextPage |-> IF more THEN "page_" \o ToString(n + 1) ELSE "",
       Status |-> 200] :
         rs \in [1..Len(bs) -> {<<>>} \cup {<<r>> : r \in UpstreamResults}],
         more \in {m \in BOOLEAN : m => n < MaxPages} }

----------------------------------------------------------------------------
(* fetchUsageData, main.go:207-277 *)

\* main.go:247-254
LabelsOf(name, result) ==
    [model |-> deref(result.Model),
     operation |-> name,
     project_id |-> deref(result.ProjectID),
     user_id |-> deref(result.UserID),
     api_key_id |-> deref(result.APIKeyID),
     batch |-> result.Batch]

\* main.go:256-260: the five updateMetric calls of one record
ResultCalls(name, bucket, result) ==
    LET labels == LabelsOf(name, result) IN
    << CallOf(labels, TokenTypes[1], bucket.StartTime, bucket.EndTime, result.InputTokens),
       CallOf(labels, TokenTypes[2], bucket.StartTime, bucket.EndTime, result.OutputTokens),
       CallOf(labels, TokenTypes[3], bucket.StartTime, bucket.EndTime, result.InputCachedTokens),
       CallOf(labels, TokenTypes[4], bucket.StartTime, bucket.EndTime, result.InputAudioTokens),
       CallOf(labels, TokenTypes[5], bucket.StartTime, bucket.EndTime, result.OutputAudioTokens) >>

\* main.go:244-266: the calls of the records of one bucket, in order
RECURSIVE BucketCalls(_, _, _)
BucketCalls(name, bucket, results) ==
    IF results = <<>> THEN <<>>
    ELSE ResultCalls(name, bucket, Head(results))
         \o BucketCalls(name, bucket, Tail(results))

\* main.go:240-267: the calls of the buckets of one page, in order
RECURSIVE PageCalls(_, _)
PageCalls(name, data) ==
    IF data = <<>> THEN <<>>
    ELSE BucketCalls(name, Head(data), Head(data).Results)
         \o PageCalls(name, Tail(data))

\* the endpoint of a task
EndpointOf(t) ==
    CHOOSE ep \in {usageEndpoints[i] : i \in 1..Len(usageEndpoints)} : ep.Path = t

\* the history of how the fetches of a window ended: "ok" or "error"
Outcome(t, how) == MapAppend(fetched, <<t, fetch[t].startTime>>, how)

\* the locals of a call that has returned: the window, the error, and the
\* history of its updateMetric calls
Returned(f, err) ==
    [NoFetch EXCEPT !.startTime = f.startTime, !.endTime = f.endTime,
                    !.err = err, !.calls = f.calls, !.decoded = f.decoded,
                    !.page = f.page, !.requests = f.requests,
                    !.sent = f.sent, !.got = f.got]

\* mutant: no request carries a page token
RequestOfNoPage(f) ==
    [start_time |-> f.startTime, end_time |-> f.endTime, page |-> Nil]

\* main.go:214-218: the query of a request: the window, and the page token
\* when nextPage is not empty
RequestOf(f) ==
    [start_time |-> f.startTime, end_time |-> f.endTime,
     page |-> IF f.nextPage # "" THEN Ptr(f.nextPage) ELSE Nil]

\* main.go:228: client.Do(req) sends the request
Sent(f) == [f EXCEPT !.requests = @ + 1, !.sent = Append(@, RequestOf(f))]

\* main.go:240-276 from the locals f on: the next updateMetric call of the
\* page; after the last one, the next request if has_more, else nil is returned
Advance(t, f) ==
    IF f.todo # <<>>
    THEN /\ call' = [call EXCEPT ![t] = Head(f.todo)]
         /\ fetch' = [fetch EXCEPT ![t] = [f EXCEPT !.todo = Tail(@)]]
         /\ pc' = [pc EXCEPT ![t] = "um_now"]
         /\ fetched' = fetched
    ELSE IF f.HasMore
    THEN /\ fetch' = [fetch EXCEPT ![t] = f]
         /\ pc' = [pc EXCEPT ![t] = "fetch_req"]
         /\ UNCHANGED <<call, fetched>>
    ELSE /\ fetch' = [fetch EXCEPT ![t] = Returned(f, FALSE)]
         /\ pc' = [pc EXCEPT ![t] = "done"]
         /\ fetched' = Outcome(t, "ok")
         /\ call' = call

\* mutant: a failed request is sent again
FetchTransportErrorRetries(t) ==
    /\ pc[t] = "fetch_req"
    /\ fetch' = [fetch EXCEPT ![t].requests = @ + 1]
    /\ UNCHANGED <<now, lastScrape, scrapeInterval, usageState, tokensTotal,
                   stateMu, pc, call, cpc, win, obs, incs, fetched, drawn,
                   resolverVars, fnVars>>

\* mutant: a failed request ends the cycle for every task, as a group of
\* tasks sharing one cancellation would
FetchTransportErrorCancels(t) ==
    /\ pc[t] = "fetch_req"
    /\ fetch' = [u \in Tasks |->
                    IF u = t
                    THEN Returned(Sent(fetch[u]), TRUE)
                    ELSE Returned(fetch[u], fetch[u].err)]
    /\ pc' = [u \in Tasks |-> "done"]
    /\ fetched' = Outcome(t, "error")
    /\ stateMu' = "free"
    /\ UNCHANGED <<now, lastScrape, scrapeInterval, usageState, tokensTotal,
                   call, cpc, win, obs, incs, drawn,
                   resolverVars, fnVars>>

\* main.go:228-231: the request fails in transport; the call returns an error
FetchTransportError(t) ==
    /\ pc[t] = "fetch_req"
    /\ fetch' = [fetch EXCEPT
                    ![t] = Returned(Sent(fetch[t]), TRUE)]
    /\ pc' = [pc EXCEPT ![t] = "done"]
    /\ fetched' = Outcome(t, "error")
    /\ UNCHANGED <<now, lastScrape, scrapeInterval, usageState, tokensTotal,
                   stateMu, call, cpc, win, obs, incs, drawn,
                   resolverVars, fnVars>>

\* mutant: a decode error takes back the ledger entries of the call's
\* earlier pages
FetchDecodeErrorRollsBack(t) ==
    /\ pc[t] = "fetch_req"
    /\ fetch' = [fetch EXCEPT
                    ![t] = Returned(Sent(fetch[t]), TRUE)]
    /\ pc' = [pc EXCEPT ![t] = "done"]
    /\ fetched' = Outcome(t, "error")
    /\ usageState' =
          [k \in DOMAIN usageState
                  \ {fetch[t].calls[i].compositeKey : i \in 1..Len(fetch[t].calls)}
              |-> usageState[k]]
    /\ UNCHANGED <<now, lastScrape, scrapeInterval, tokensTotal,
                   stateMu, call, cpc, win, obs, incs, drawn,
                   resolverVars, fnVars>>

\* main.go:234-237: the body does not decode; the call returns an error
FetchDecodeError(t) ==
    /\ pc[t] = "fetch_req"
    /\ fetch' = [fetch EXCEPT
                    ![t] = Returned(Sent(fetch[t]), TRUE)]
    /\ pc' = [pc EXCEPT ![t] = "done"]
    /\ fetched' = Outcome(t, "error")
    /\ UNCHANGED <<now, lastScrape, scrapeInterval, usageState, tokensTotal,
                   stateMu, call, cpc, win, obs, incs, drawn,
                   resolverVars, fnVars>>

\* main.go:214-276: a page is requested and decoded, and its first
\* updateMetric call is made
FetchPage(t) ==
    /\ pc[t] = "fetch_req"
    /\ \E response \in UpstreamPages(fetch[t].startTime, fetch[t].endTime,
                                     drawn.pages) :
          /\ drawn.inputs + RecordCount(response.Data) <= MaxRecords
          /\ drawn' = [inputs |-> drawn.inputs + RecordCount(response.Data),
                       pages |-> drawn.pages + (IF response.HasMore THEN 1 ELSE 0)]
          /\ Advance(t, [fetch[t] EXCEPT
                            !.page = @ + 1,
                            !.requests = @ + 1,
                            !.sent = Append(@, RequestOf(fetch[t])),
                            !.got = Append(@, response),
                            !.todo = PageCalls(EndpointOf(t).Name, response.Data),
                            !.decoded = @ + Len(PageCalls(EndpointOf(t).Name,
                                                          response.Data)),
                            !.HasMore = response.HasMore,
                            !.nextPage = response.NextPage])
    /\ UNCHANGED <<now, lastScrape, scrapeInterval, usageState, tokensTotal,
                   stateMu, cpc, win, obs, incs,
                   resolverVars, fnVars>>

\* main.go:256-276: updateMetric has returned; the next call, request or return
FetchStep(t) ==
    /\ pc[t] = "um_ret"
    /\ Advance(t, [fetch[t] EXCEPT !.calls = Append(@, call[t])])
    /\ UNCHANGED <<now, lastScrape, scrapeInterval, usageState, tokensTotal,
                   stateMu, cpc, win, obs, incs, drawn,
                   resolverVars, fnVars>>

----------------------------------------------------------------------------
(* main and collect of the ledger revision, main.go:288-320 *)

\* time.Round(time.Minute): to the nearest minute, halfway values up
RoundMinute(t) == ((t + BucketWidth \div 2) \div BucketWidth) * BucketWidth

\* the wall-clock times at which main may start: on the minute, and half a
\* minute past it
StartTimes == {Epoch, Epoch + TickStep}

\* the values of -scrape.interval (main.go:69; the default is one minute)
ScrapeIntervals == {BucketWidth}

\* main.go:313-320: the cursor is set, NewExporter succeeds, collect starts
Init ==
    /\ now \in StartTimes
    /\ lastScrape = RoundMinute(now) - BucketWidth
    /\ scrapeInterval \in ScrapeIntervals
    /\ usageState = EmptyMap
    /\ tokensTotal = EmptyMap
    /\ stateMu = "free"
    /\ pc = [t \in Tasks |-> "idle"]
    /\ call = [t \in Tasks |-> NoCall]
    /\ fetch = [t \in Tasks |-> NoFetch]
    /\ cpc = "start"
    /\ win = NoWin
    /\ obs = EmptyMap
    /\ incs = EmptyMap
    /\ fetched = EmptyMap
    /\ drawn = NoneDrawn
    /\ ResolverIdle
    /\ FnIdle

\* main.go:290-304: the window is read from the cursor and one goroutine is
\* started per endpoint
CollectStart ==
    /\ cpc = "start"
    /\ win' = [win EXCEPT !.startTime = lastScrape,
                          !.endTime = lastScrape + BucketWidth,
                          !.cycle = @ + 1]
    /\ fetch' = [t \in Tasks |->
                    [NoFetch EXCEPT !.startTime = lastScrape,
                                    !.endTime = lastScrape + BucketWidth]]
    /\ pc' = [t \in Tasks |-> "fetch_req"]
    /\ cpc' = "wait"
    /\ UNCHANGED <<now, lastScrape, scrapeInterval, usageState, tokensTotal,
                   stateMu, call, obs, incs, fetched, drawn,
                   resolverVars, fnVars>>

\* mutant: the wait ends when the first goroutine is done
CollectWaitAny ==
    /\ cpc = "wait"
    /\ \E t \in Tasks : pc[t] = "done"
    /\ lastScrape' = lastScrape + BucketWidth
    /\ win' = [win EXCEPT !.slept = now]
    /\ cpc' = "sleep"
    /\ pc' = [t \in Tasks |-> IF pc[t] = "done" THEN "idle" ELSE pc[t]]
    /\ call' = [t \in Tasks |-> IF pc[t] = "done" THEN NoCall ELSE call[t]]
    /\ fetch' = [t \in Tasks |-> IF pc[t] = "done" THEN NoFetch ELSE fetch[t]]
    /\ UNCHANGED <<now, scrapeInterval, usageState, tokensTotal, stateMu,
                   obs, incs, fetched, drawn,
                   resolverVars, fnVars>>

\* mutant: the cursor stays where it is when a task of the cycle failed
CollectWaitKeepsOnError ==
    /\ cpc = "wait"
    /\ \A t \in Tasks : pc[t] = "done"
    /\ lastScrape' = IF \E t \in Tasks : fetch[t].err
                     THEN lastScrape
                     ELSE lastScrape + BucketWidth
    /\ win' = [win EXCEPT !.slept = now]
    /\ cpc' = "sleep"
    /\ pc' = [t \in Tasks |-> "idle"]
    /\ call' = [t \in Tasks |-> NoCall]
    /\ fetch' = [t \in Tasks |-> NoFetch]
    /\ UNCHANGED <<now, scrapeInterval, usageState, tokensTotal, stateMu,
                   obs, incs, fetched, drawn,
                   resolverVars, fnVars>>

\* main.go:305-307: wg.Wait() returns when every goroutine is done; the
\* cursor advances and the sleep starts
CollectWait ==
    /\ cpc = "wait"
    /\ \A t \in Tasks : pc[t] = "done"
    /\ lastScrape' = lastScrape + BucketWidth
    /\ win' = [win EXCEPT !.slept = now]
    /\ cpc' = "sleep"
    /\ pc' = [t \in Tasks |-> "idle"]
    /\ call' = [t \in Tasks |-> NoCall]
    /\ fetch' = [t \in Tasks |-> NoFetch]
    /\ UNCHANGED <<now, scrapeInterval, usageState, tokensTotal, stateMu,
                   obs, incs, fetched, drawn,
                   resolverVars, fnVars>>

\* main.go:307: time.Sleep(*scrapeInterval) returns
CollectSleep ==
    /\ cpc = "sleep"
    /\ now >= win.slept + scrapeInterval
    /\ cpc' = "start"
    /\ UNCHANGED <<now, lastScrape, scrapeInterval, usageState, tokensTotal,
                   stateMu, pc, call, fetch, win, obs, incs, fetched, drawn,
                   resolverVars, fnVars>>

Tick == ClockTick(MaxNow)

Next ==
    \/ Tick
    \/ CollectStart
    \/ CollectWait
    \/ CollectSleep
    \/ \E t \in Tasks : FetchTransportError(t)
    \/ \E t \in Tasks : FetchDecodeError(t)
    \/ \E t \in Tasks : FetchPage(t)
    \/ \E t \in Tasks : FetchStep(t)
    \/ \E t \in Tasks : UMNow(t)
    \/ \E t \in Tasks : UMLock(t)
    \/ \E t \in Tasks : UMExists(t)
    \/ \E t \in Tasks : UMAdd(t)
    \/ \E t \in Tasks : UMStore(t)

Spec == Init /\ [][Next]_vars

----------------------------------------------------------------------------
(* SpecUpstream: the ledger revision with the answers the upstream can give *)
(* besides well-formed usage pages: an answer with a non-success status     *)
(* and a JSON error body, and a page with has_more = true whose next_page   *)
(* is empty or repeats the token of the request.                            *)

\* main.go:114-119, 234-237: the APIResponse decoded from the body
\* {"error": {...}} of an answer with status 401: the body is JSON and holds
\* none of the fields of APIResponse, so Decode returns nil and leaves Data
\* empty, HasMore false and NextPage empty
ErrorStatusPage ==
    [Data |-> <<>>, HasMore |-> FALSE, NextPage |-> "",
     Status |-> 401]

\* main.go:228-276: the request is answered with a non-success status;
\* client.Do returns no error for it and the body decodes
FetchErrorStatus(t) ==
    /\ pc[t] = "fetch_req"
    /\ Advance(t, [fetch[t] EXCEPT
                      !.page = @ + 1,
                      !.requests = @ + 1,
                      !.sent = Append(@, RequestOf(fetch[t])),
                      !.got = Append(@, ErrorStatusPage),
                      !.todo = <<>>,
                      !.HasMore = ErrorStatusPage.HasMore,
                      !.nextPage = ErrorStatusPage.NextPage])
    /\ UNCHANGED <<now, lastScrape, scrapeInterval, usageState, tokensTotal,
                   stateMu, cpc, win, obs, incs, drawn,
                   resolverVars, fnVars>>

\* main.go:214-228: a request is sent that the upstream is going to answer
\* with a page that repeats. The requests and pages of repeats are not
\* entered in the histories of the call, which would grow without end.
FetchRepeatSend(t) ==
    /\ pc[t] = "fetch_req"
    /\ pc' = [pc EXCEPT ![t] = "fetch_repeat"]
    /\ UNCHANGED <<now, lastScrape, scrapeInterval, usageState, tokensTotal,
                   stateMu, call, fetch, cpc, win, obs, incs, fetched, drawn,
                   resolverVars, fnVars>>

\* main.go:234-273: the answer is a page with no bucket, has_more = true and
\* a next_page that is empty or the token of the request; the loop goes on
\* with nextPage = response.NextPage
FetchRepeatAnswer(t) ==
    /\ pc[t] = "fetch_repeat"
    /\ \E token \in {"", fetch[t].nextPage} :
          fetch' = [fetch EXCEPT ![t].HasMore = TRUE, ![t].nextPage = token]
    /\ pc' = [pc EXCEPT ![t] = "fetch_req"]
    /\ UNCHANGED <<now, lastScrape, scrapeInterval, usageState, tokensTotal,
                   stateMu, call, cpc, win, obs, incs, fetched, drawn,
                   resolverVars, fnVars>>

NextUpstream ==
    \/ Tick
    \/ CollectStart
    \/ CollectWait
    \/ CollectSleep
    \/ \E t \in Tasks : FetchTransportError(t)
    \/ \E t \in Tasks : FetchDecodeError(t)
    \/ \E t \in Tasks : FetchPage(t)
    \/ \E t \in Tasks : FetchErrorStatus(t)
    \/ \E t \in Tasks : FetchRepeatSend(t)
    \/ \E t \in Tasks : FetchRepeatAnswer(t)
    \/ \E t \in Tasks : FetchStep(t)
    \/ \E t \in Tasks : UMNow(t)
    \/ \E t \in Tasks : UMLock(t)
    \/ \E t \in Tasks : UMExists(t)
    \/ \E t \in Tasks : UMAdd(t)
    \/ \E t \in Tasks : UMStore(t)

\* a step of the goroutine of task t other than taking the lock
TaskStep(t) ==
    \/ FetchTransportError(t)
    \/ FetchDecodeError(t)
    \/ FetchPage(t)
    \/ FetchErrorStatus(t)
    \/ FetchRepeatSend(t)
    \/ FetchRepeatAnswer(t)
    \/ FetchStep(t)
    \/ UMNow(t)
    \/ UMExists(t)
    \/ UMAdd(t)
    \/ UMStore(t)

\* the scheduling the runtime gives and every request returning: a goroutine
\* that can take a step takes one, whichever answer the upstream gives; a
\* goroutine waiting in Lock gets the mutex; collect goes on when it can
SpecUpstream ==
    /\ Init
    /\ [][NextUpstream]_vars
    /\ \A t \in Tasks : WF_vars(TaskStep(t)) /\ SF_vars(UMLock(t))
    /\ WF_vars(CollectStart)
    /\ WF_vars(CollectWait)

----------------------------------------------------------------------------
(* The lookback-window revision, main.go:336-653: collect queries the       *)
(* window [now - queryOffset, now) in every cycle and fetchUsageData adds   *)
(* every record it decodes to the counters. This revision has no ledger,    *)
(* no lock and no cursor: usageState, stateMu, lastScrape, call and obs     *)
(* stay as they start.                                                      *)

\* -query.offset (main.go:400; the default is 60 minutes), in buckets of the
\* model's clock
queryOffset == 2 * BucketWidth

\* the page the upstream answers to the request number page + 1 for the
\* window [s, e), after having served n follow-up pages: one record in every
\* 1m bucket that overlaps the window on the first page and none on a
\* follow-up page, has_more only while follow-up pages remain
LookbackPages(s, e, page, n) ==
    LET bs == WindowBuckets((s \div BucketWidth) * BucketWidth, e) IN
    { [Data |-> IF page = 0
                THEN [i \in 1..Len(bs) |->
                        [StartTime |-> bs[i].StartTime, EndTime |-> bs[i].EndTime,
                         Results |-> <<r>>]]
                ELSE <<>>,
       HasMore |-> more,
       NextPage |-> IF more THEN "page_" \o ToString(n + 1) ELSE ""] :
         r \in UpstreamResults,
         more \in {m \in BOOLEAN : m => n < MaxPages} }

\* main.go:543-573: the five Add calls of every record of a page, in order
RECURSIVE AddAll(_, _)
AddAll(counters, calls) ==
    IF calls = <<>> THEN counters
    ELSE AddAll(CounterAdd(counters, SeriesOf(Head(calls)), Head(calls).newValue),
                Tail(calls))

\* the history of the values added for each bucket key
RECURSIVE RecordAll(_, _)
RecordAll(hist, calls) ==
    IF calls = <<>> THEN hist
    ELSE RecordAll(MapAppend(hist, Head(calls).compositeKey, Head(calls).newValue),
                   Tail(calls))

\* main.go:631-638: NewExporter succeeds and collect starts
InitLookback ==
    /\ now \in StartTimes
    /\ lastScrape = 0
    /\ scrapeInterval \in ScrapeIntervals
    /\ usageState = EmptyMap
    /\ tokensTotal = EmptyMap
    /\ stateMu = "free"
    /\ pc = [t \in Tasks |-> "idle"]
    /\ call = [t \in Tasks |-> NoCall]
    /\ fetch = [t \in Tasks |-> NoFetch]
    /\ cpc = "start"
    /\ win = NoWin
    /\ obs = EmptyMap
    /\ incs = EmptyMap
    /\ fetched = EmptyMap
    /\ drawn = NoneDrawn
    /\ ResolverIdle
    /\ FnIdle

\* main.go:609-622: the window is read from the clock and one goroutine is
\* started per endpoint
LookbackCollectStart ==
    /\ cpc = "start"
    /\ win' = [win EXCEPT !.startTime = now - queryOffset,
                          !.endTime = now,
                          !.cycle = @ + 1]
    /\ fetch' = [t \in Tasks |->
                    [NoFetch EXCEPT !.startTime = now - queryOffset,
                                    !.endTime = now]]
    /\ pc' = [t \in Tasks |-> "fetch_req"]
    /\ cpc' = "wait"
    /\ UNCHANGED <<now, lastScrape, scrapeInterval, usageState, tokensTotal,
                   stateMu, call, obs, incs, fetched, drawn,
                   resolverVars, fnVars>>

\* main.go:531-534: the request fails in transport; the call returns an error
LookbackTransportError(t) ==
    /\ pc[t] = "fetch_req"
    /\ fetch' = [fetch EXCEPT
                    ![t] = Returned([fetch[t] EXCEPT !.requests = @ + 1], TRUE)]
    /\ pc' = [pc EXCEPT ![t] = "done"]
    /\ fetched' = Outcome(t, "error")
    /\ UNCHANGED <<now, lastScrape, scrapeInterval, usageState, tokensTotal,
                   stateMu, call, cpc, win, obs, incs, drawn,
                   resolverVars, fnVars>>

\* main.go:537-540: the body does not decode; the call returns an error
LookbackDecodeError(t) ==
    /\ pc[t] = "fetch_req"
    /\ fetch' = [fetch EXCEPT
                    ![t] = Returned([fetch[t] EXCEPT !.requests = @ + 1], TRUE)]
    /\ pc' = [pc EXCEPT ![t] = "done"]
    /\ fetched' = Outcome(t, "error")
    /\ UNCHANGED <<now, lastScrape, scrapeInterval, usageState, tokensTotal,
                   stateMu, call, cpc, win, obs, incs, drawn,
                   resolverVars, fnVars>>

\* main.go:512-584: a page is requested and decoded and every record of it is
\* added to the counters; then the next request if has_more, else nil is
\* returned
LookbackFetchPage(t) ==
    /\ pc[t] = "fetch_req"
    /\ \E response \in LookbackPages(fetch[t].startTime, fetch[t].endTime,
                                     fetch[t].page, drawn.pages) :
          LET calls == PageCalls(EndpointOf(t).Name, response.Data)
              f == [fetch[t] EXCEPT !.page = @ + 1,
                                    !.requests = @ + 1,
                                    !.HasMore = response.HasMore,
                                    !.nextPage = response.NextPage,
                                    !.decoded = @ + Len(calls)]
          IN
          /\ tokensTotal' = AddAll(tokensTotal, calls)
          /\ incs' = RecordAll(incs, calls)
          /\ drawn' = [drawn EXCEPT
                          !.pages = @ + (IF response.HasMore THEN 1 ELSE 0)]
          /\ IF response.HasMore
             THEN /\ fetch' = [fetch EXCEPT ![t] = f]
                  /\ UNCHANGED <<pc, fetched>>
             ELSE /\ fetch' = [fetch EXCEPT ![t] = Returned(f, FALSE)]
                  /\ pc' = [pc EXCEPT ![t] = "done"]
                  /\ fetched' = Outcome(t, "ok")
    /\ UNCHANGED <<now, lastScrape, scrapeInterval, usageState, stateMu, call,
                   cpc, win, obs,
                   resolverVars, fnVars>>

\* main.go:624-626: wg.Wait() returns when every goroutine is done; the sleep
\* starts
LookbackCollectWait ==
    /\ cpc = "wait"
    /\ \A t \in Tasks : pc[t] = "done"
    /\ win' = [win EXCEPT !.slept = now]
    /\ cpc' = "sleep"
    /\ pc' = [t \in Tasks |-> "idle"]
    /\ fetch' = [t \in Tasks |-> NoFetch]
    /\ UNCHANGED <<now, lastScrape, scrapeInterval, usageState, tokensTotal,
                   stateMu, call, obs, incs, fetched, drawn,
                   resolverVars, fnVars>>

\* main.go:626: time.Sleep(*scrapeInterval) returns
LookbackCollectSleep ==
    /\ cpc = "sleep"
    /\ now >= win.slept + scrapeInterval
    /\ cpc' = "start"
    /\ UNCHANGED <<now, lastScrape, scrapeInterval, usageState, tokensTotal,
                   stateMu, pc, call, fetch, win, obs, incs, fetched, drawn,
                   resolverVars, fnVars>>

TickLookback == ClockTick(MaxNow)

NextLookback ==
    \/ TickLookback
    \/ LookbackCollectStart
    \/ LookbackCollectWait
    \/ LookbackCollectSleep
    \/ \E t \in Tasks : LookbackTransportError(t)
    \/ \E t \in Tasks : LookbackDecodeError(t)
    \/ \E t \in Tasks : LookbackFetchPage(t)

SpecLookback == InitLookback /\ [][NextLookback]_vars

----------------------------------------------------------------------------
(* The reference name resolver, ensureProjectName. Its code is not in the   *)
(* source files (main_test.go:231-290 calls it); it is modelled from        *)
(* section 4.3 and section 5 of the specification: for the empty or         *)
(* "unknown" identifier return "unknown" at once; else look the cache up;   *)
(* on a hit return the name; on a miss make one synchronous fetch, with no  *)
(* lock held, write the result to the cache under the cache's lock and      *)
(* return it; on a fetch failure return "unknown" and cache nothing. The    *)
(* lookup and the write are map operations under the lock: one step each.   *)

\* the identifiers resolved (main_test.go:236, 242, 248, 288)
ProjectIDs == {"", "unknown", "proj-123", "proj-timeout"}

\* the name the reference endpoint holds for a project
ProjectNameOf(id) == "name of " \o id

\* mutant: only the empty identifier is answered at once
IsUnknownIDEmptyOnly(id) == id = ""

\* section 4.3: the empty or "unknown" identifier
IsUnknownID(id) == id = "" \/ id = "unknown"

\* the call is made: an empty or "unknown" identifier returns at once
EnsureCall(c) ==
    /\ resolve[c].pc = "idle"
    /\ drawn.inputs < MaxResolves
    /\ drawn' = [drawn EXCEPT !.inputs = @ + 1]
    /\ \E id \in ProjectIDs :
          resolve' = [resolve EXCEPT ![c] =
              IF IsUnknownID(id)
              THEN [@ EXCEPT !.pc = "ret", !.projectID = id, !.result = "unknown"]
              ELSE [@ EXCEPT !.pc = "lookup", !.projectID = id]]
    /\ UNCHANGED <<now, lastScrape, scrapeInterval, usageState, tokensTotal,
                   stateMu, pc, call, fetch, cpc, win, obs, incs, fetched,
                   projectNames, netCalls, fnVars>>

\* the cache is looked up under its lock: a hit returns the cached name
EnsureLookup(c) ==
    /\ resolve[c].pc = "lookup"
    /\ resolve' = [resolve EXCEPT ![c] =
          IF resolve[c].projectID \in DOMAIN projectNames
          THEN [@ EXCEPT !.pc = "ret",
                         !.name = projectNames[resolve[c].projectID],
                         !.result = projectNames[resolve[c].projectID]]
          ELSE [@ EXCEPT !.pc = "fetch"]]
    /\ UNCHANGED <<now, lastScrape, scrapeInterval, usageState, tokensTotal,
                   stateMu, pc, call, fetch, cpc, win, obs, incs, fetched,
                   drawn, projectNames, netCalls, fnVars>>

\* the fetch from the reference endpoint succeeds
EnsureFetch(c) ==
    /\ resolve[c].pc = "fetch"
    /\ netCalls' = MapAppend(netCalls, resolve[c].projectID, "ok")
    /\ resolve' = [resolve EXCEPT ![c] =
          [@ EXCEPT !.pc = "store",
                    !.name = ProjectNameOf(resolve[c].projectID),
                    !.fetches = @ + 1]]
    /\ UNCHANGED <<now, lastScrape, scrapeInterval, usageState, tokensTotal,
                   stateMu, pc, call, fetch, cpc, win, obs, incs, fetched,
                   drawn, projectNames, fnVars>>

\* mutant: a failed fetch is cached as "unknown"
EnsureFetchFailCached(c) ==
    /\ resolve[c].pc = "fetch"
    /\ netCalls' = MapAppend(netCalls, resolve[c].projectID, "error")
    /\ projectNames' = MapSet(projectNames, resolve[c].projectID, "unknown")
    /\ resolve' = [resolve EXCEPT ![c] =
          [@ EXCEPT !.pc = "ret", !.result = "unknown", !.fetches = @ + 1]]
    /\ UNCHANGED <<now, lastScrape, scrapeInterval, usageState, tokensTotal,
                   stateMu, pc, call, fetch, cpc, win, obs, incs, fetched,
                   drawn, fnVars>>

\* the fetch fails (timeout, non-2xx status or decode error): "unknown" is
\* returned and nothing is cached
EnsureFetchFail(c) ==
    /\ resolve[c].pc = "fetch"
    /\ netCalls' = MapAppend(netCalls, resolve[c].projectID, "error")
    /\ resolve' = [resolve EXCEPT ![c] =
          [@ EXCEPT !.pc = "ret", !.result = "unknown", !.fetches = @ + 1]]
    /\ UNCHANGED <<now, lastScrape, scrapeInterval, usageState, tokensTotal,
                   stateMu, pc, call, fetch, cpc, win, obs, incs, fetched,
                   drawn, projectNames, fnVars>>

\* mutant: the fetched name is returned but not written to the cache
EnsureStoreNothing(c) ==
    /\ resolve[c].pc = "store"
    /\ resolve' = [resolve EXCEPT ![c] =
          [@ EXCEPT !.pc = "ret", !.result = resolve[c].name]]
    /\ UNCHANGED <<now, lastScrape, scrapeInterval, usageState, tokensTotal,
                   stateMu, pc, call, fetch, cpc, win, obs, incs, fetched,
                   drawn, projectNames, netCalls, fnVars>>

\* the fetched name is written to the cache under its lock and returned
EnsureStore(c) ==
    /\ resolve[c].pc = "store"
    /\ projectNames' = MapSet(projectNames, resolve[c].projectID, resolve[c].name)
    /\ resolve' = [resolve EXCEPT ![c] =
          [@ EXCEPT !.pc = "ret", !.result = resolve[c].name]]
    /\ UNCHANGED <<now, lastScrape, scrapeInterval, usageState, tokensTotal,
                   stateMu, pc, call, fetch, cpc, win, obs, incs, fetched,
                   drawn, netCalls, fnVars>>

\* the call has returned to its caller
EnsureReturn(c) ==
    /\ resolve[c].pc = "ret"
    /\ resolve' = [resolve EXCEPT ![c] =
          [NoResolve EXCEPT !.prev = [projectID |-> resolve[c].projectID,
                                      result |-> resolve[c].result,
                                      fetches |-> resolve[c].fetches,
                                      called |-> TRUE]]]
    /\ UNCHANGED <<now, lastScrape, scrapeInterval, usageState, tokensTotal,
                   stateMu, pc, call, fetch, cpc, win, obs, incs, fetched,
                   drawn, projectNames, netCalls, fnVars>>

\* main_test.go:232, 247-248: the cache starts empty or holds a name
InitResolve ==
    /\ now = Epoch
    /\ lastScrape = 0
    /\ scrapeInterval \in ScrapeIntervals
    /\ usageState = EmptyMap
    /\ tokensTotal = EmptyMap
    /\ stateMu = "free"
    /\ pc = [t \in Tasks |-> "idle"]
    /\ call = [t \in Tasks |-> NoCall]
    /\ fetch = [t \in Tasks |-> NoFetch]
    /\ cpc = "none"
    /\ win = NoWin
    /\ obs = EmptyMap
    /\ incs = EmptyMap
    /\ fetched = EmptyMap
    /\ drawn = NoneDrawn
    /\ projectNames \in {EmptyMap, [x \in {"proj-123"} |-> "cached-project"]}
    /\ resolve = [c \in Callers |-> NoResolve]
    /\ netCalls = EmptyMap
    /\ FnIdle

NextResolve ==
    \/ \E c \in Callers : EnsureCall(c)
    \/ \E c \in Callers : EnsureLookup(c)
    \/ \E c \in Callers : EnsureFetch(c)
    \/ \E c \in Callers : EnsureFetchFail(c)
    \/ \E c \in Callers : EnsureStore(c)
    \/ \E c \in Callers : EnsureReturn(c)

SpecResolve == InitResolve /\ [][NextResolve]_vars

----------------------------------------------------------------------------
(* Operations applied on their own, to arguments drawn from small sets:     *)
(* StringOrBool.UnmarshalJSON, the decoding of a usage record into labels,  *)
(* NewExporter and the start of main, dayBoundsUTC. A JSON text is a        *)
(* sequence of characters; string(b) is their concatenation.                *)

Quote == "\""
Backslash == "\\"

\* string(b)
Text(b) == Join(b, "")

\* the characters JSON strings are made of in the model
StringAlphabet == {"a", Quote, Backslash}

\* the string values of at most n characters
StringsUpTo(n) == UNION {[1..k -> StringAlphabet] : k \in 0..n}

\* encoding/json: a string value as a JSON text, quote and backslash escaped
RECURSIVE EscapeChars(_)
EscapeChars(chars) ==
    IF chars = <<>> THEN <<>>
    ELSE (IF Head(chars) \in {Quote, Backslash}
          THEN <<Backslash, Head(chars)>> ELSE <<Head(chars)>>)
         \o EscapeChars(Tail(chars))

EncodeString(chars) == <<Quote>> \o EscapeChars(chars) \o <<Quote>>

JSONNull == <<"n", "u", "l", "l">>
JSONTrue == <<"t", "r", "u", "e">>
JSONFalse == <<"f", "a", "l", "s", "e">>

\* the JSON values decoded: their kind, their text, and for a string its
\* characters
JSONValues ==
    { [kind |-> "null", b |-> JSONNull, chars |-> <<>>],
      [kind |-> "true", b |-> JSONTrue, chars |-> <<>>],
      [kind |-> "false", b |-> JSONFalse, chars |-> <<>>],
      [kind |-> "number", b |-> <<"1", "2", "3">>, chars |-> <<>>],
      [kind |-> "number", b |-> <<"0">>, chars |-> <<>>],
      [kind |-> "array", b |-> <<"[", "]">>, chars |-> <<>>],
      [kind |-> "object", b |-> <<"{", "}">>, chars |-> <<>>] }
    \cup { [kind |-> "string", b |-> EncodeString(cs), chars |-> cs] :
             cs \in StringsUpTo(MaxStrLen) }

\* encoding/json: the characters of the body of a JSON string, escapes
\* resolved; <<"error">> is appended when the body is malformed
RECURSIVE UnescapeChars(_)
UnescapeChars(body) ==
    IF body = <<>> THEN <<>>
    ELSE IF Head(body) = Backslash
    THEN IF Len(body) >= 2 /\ body[2] \in {Quote, Backslash}
         THEN <<body[2]>> \o UnescapeChars(Tail(Tail(body)))
         ELSE <<"error">>
    ELSE IF Head(body) = Quote THEN <<"error">>
    ELSE <<Head(body)>> \o UnescapeChars(Tail(body))

\* json.Unmarshal(b, &tmp) for a string tmp
UnmarshalString(b) ==
    IF Len(b) >= 2 /\ b[1] = Quote /\ b[Len(b)] = Quote
    THEN LET cs == UnescapeChars(SubSeq(b, 2, Len(b) - 1)) IN
         IF cs # <<>> /\ cs[Len(cs)] = "error"
         THEN [err |-> TRUE, tmp |-> ""]
         ELSE [err |-> FALSE, tmp |-> Text(cs)]
    ELSE IF b = JSONNull THEN [err |-> FALSE, tmp |-> ""]
    ELSE [err |-> TRUE, tmp |-> ""]

\* json.Unmarshal(b, &tmp) for a bool tmp
UnmarshalBool(b) ==
    IF b = JSONTrue THEN [err |-> FALSE, tmp |-> TRUE]
    ELSE IF b = JSONFalse \/ b = JSONNull THEN [err |-> FALSE, tmp |-> FALSE]
    ELSE [err |-> TRUE, tmp |-> FALSE]

\* mutant: null leaves the value as it is
UnmarshalJSONNullKept(s, b) ==
    IF Text(b) = "null" THEN [err |-> FALSE, s |-> s]
    ELSE IF b[1] = Quote
    THEN LET r == UnmarshalString(b) IN
         IF r.err THEN [err |-> TRUE, s |-> s] ELSE [err |-> FALSE, s |-> r.tmp]
    ELSE LET r == UnmarshalBool(b) IN
         IF ~r.err
         THEN [err |-> FALSE, s |-> IF r.tmp THEN "true" ELSE "false"]
         ELSE [err |-> TRUE, s |-> s]

\* main.go:24-47: StringOrBool.UnmarshalJSON on the value s and the text b
UnmarshalJSON(s, b) ==
    IF Text(b) = "null" THEN [err |-> FALSE, s |-> "unknown"]
    ELSE IF b[1] = Quote
    THEN LET r == UnmarshalString(b) IN
         IF r.err THEN [err |-> TRUE, s |-> s] ELSE [err |-> FALSE, s |-> r.tmp]
    ELSE LET r == UnmarshalBool(b) IN
         IF ~r.err
         THEN [err |-> FALSE, s |-> IF r.tmp THEN "true" ELSE "false"]
         ELSE [err |-> TRUE, s |-> s]

\* main_test.go:59-60: var s StringOrBool; json.Unmarshal(input, &s)
ApplyUnmarshalJSON ==
    /\ input.op = "UnmarshalJSON"
    /\ output = NoOutput
    /\ output' = [op |-> "UnmarshalJSON"] @@ UnmarshalJSON("", input.value.b)
    /\ UNCHANGED <<now, lastScrape, scrapeInterval, usageState, tokensTotal,
                   stateMu, pc, call, fetch, cpc, win, obs, incs, fetched,
                   drawn, resolverVars, input>>

\* the values of an environment variable: unset or empty, and set
EnvValues(set) == {"", set}

\* mutant: the organisation id is checked first
NewExporterOrgFirst(env) ==
    IF env.OPENAI_ORG_ID = ""
    THEN [exporter |-> Nil,
          err |-> "OPENAI_ORG_ID environment variable is not set"]
    ELSE IF env.OPENAI_SECRET_KEY = ""
    THEN [exporter |-> Nil,
          err |-> "OPENAI_SECRET_KEY environment variable is not set"]
    ELSE [exporter |-> Ptr([apiKey |-> env.OPENAI_SECRET_KEY,
                            orgID |-> env.OPENAI_ORG_ID]),
          err |-> ""]

\* main.go:143-157
NewExporter(env) ==
    IF env.OPENAI_SECRET_KEY = ""
    THEN [exporter |-> Nil,
          err |-> "OPENAI_SECRET_KEY environment variable is not set"]
    ELSE IF env.OPENAI_ORG_ID = ""
    THEN [exporter |-> Nil,
          err |-> "OPENAI_ORG_ID environment variable is not set"]
    ELSE [exporter |-> Ptr([apiKey |-> env.OPENAI_SECRET_KEY,
                            orgID |-> env.OPENAI_ORG_ID]),
          err |-> ""]

\* main.go:314-318: the cursor is set and NewExporter is called; on an error
\* logrus.Fatal ends the process
MainNewExporter ==
    /\ input.op = "main"
    /\ output = NoOutput
    /\ lastScrape' = RoundMinute(now) - BucketWidth
    /\ LET r == NewExporter(input.env) IN
       output' = [op |-> "main", exporter |-> r.exporter, err |-> r.err,
                  pc |-> IF r.err # "" THEN "exited" ELSE "created",
                  collecting |-> FALSE, serving |-> FALSE]
    /\ UNCHANGED <<now, scrapeInterval, usageState, tokensTotal,
                   stateMu, pc, call, fetch, cpc, win, obs, incs, fetched,
                   drawn, resolverVars, input>>

\* main.go:320: go exporter.collect()
MainGoCollect ==
    /\ input.op = "main"
    /\ output # NoOutput
    /\ output.pc = "created"
    /\ output' = [output EXCEPT !.pc = "listen", !.collecting = TRUE]
    /\ UNCHANGED <<now, lastScrape, scrapeInterval, usageState, tokensTotal,
                   stateMu, pc, call, fetch, cpc, win, obs, incs, fetched,
                   drawn, resolverVars, input>>

\* main.go:322-331: the handlers are registered and the server listens
MainListenAndServe ==
    /\ input.op = "main"
    /\ output # NoOutput
    /\ output.pc = "listen"
    /\ output' = [output EXCEPT !.pc = "serving", !.serving = TRUE]
    /\ UNCHANGED <<now, lastScrape, scrapeInterval, usageState, tokensTotal,
                   stateMu, pc, call, fetch, cpc, win, obs, incs, fetched,
                   drawn, resolverVars, input>>

\* main.go:331-333: ListenAndServe returns an error, at once or later, and
\* logrus.Fatal ends the process
MainListenError ==
    /\ input.op = "main"
    /\ output # NoOutput
    /\ output.pc \in {"listen", "serving"}
    /\ output' = [output EXCEPT !.pc = "exited", !.collecting = FALSE,
                                !.serving = FALSE]
    /\ UNCHANGED <<now, lastScrape, scrapeInterval, usageState, tokensTotal,
                   stateMu, pc, call, fetch, cpc, win, obs, incs, fetched,
                   drawn, resolverVars, input>>

\* a key that the JSON object of a record does not hold
Missing == <<>>

\* encoding/json into a *string field: an absent key and null leave nil
DecodePtr(field) ==
    IF field = Missing \/ field = JSONNull THEN [err |-> FALSE, v |-> Nil]
    ELSE LET r == UnmarshalString(field) IN
         IF r.err THEN [err |-> TRUE, v |-> Nil]
         ELSE [err |-> FALSE, v |-> Ptr(r.tmp)]

\* encoding/json into the StringOrBool field: an absent key leaves the zero
\* value, every present value (null too) is handed to UnmarshalJSON
DecodeBatch(field) ==
    IF field = Missing THEN [err |-> FALSE, s |-> ""]
    ELSE UnmarshalJSON("", field)

\* main.go:128-141, 234-237: one record of a page is decoded
DecodeResult(obj) ==
    LET m == DecodePtr(obj.model)
        p == DecodePtr(obj.project_id)
        u == DecodePtr(obj.user_id)
        k == DecodePtr(obj.api_key_id)
        b == DecodeBatch(obj.batch)
    IN
    [err |-> m.err \/ p.err \/ u.err \/ k.err \/ b.err,
     result |-> [InputTokens |-> 1, OutputTokens |-> 1, InputCachedTokens |-> 0,
                 InputAudioTokens |-> 0, OutputAudioTokens |-> 0,
                 ProjectID |-> p.v, UserID |-> u.v, APIKeyID |-> k.v,
                 Model |-> m.v, Batch |-> b.s]]

\* the texts of a dimension's field in the records decoded
FieldTexts == {Missing, JSONNull, EncodeString(<<>>), EncodeString(<<"a">>)}

\* the JSON objects of the records decoded
ResultObjects ==
    [model : FieldTexts \cup {<<"0">>},
     project_id : FieldTexts,
     user_id : FieldTexts,
     api_key_id : FieldTexts,
     batch : FieldTexts \cup {JSONTrue, JSONFalse, <<"0">>}]

\* main.go:234-260: a page with one record is decoded and the labels and the
\* key of its first updateMetric call are built
ApplyDecodeResult ==
    /\ input.op = "decode"
    /\ output = NoOutput
    /\ LET d == DecodeResult(input.obj)
           labels == LabelsOf(usageEndpoints[1].Name, d.result)
       IN
       output' = IF d.err
                 THEN [op |-> "decode", err |-> TRUE]
                 ELSE [op |-> "decode", err |-> FALSE, labels |-> labels,
                       compositeKey |-> compositeKey(labels, TokenTypes[1], Epoch)]
    /\ UNCHANGED <<now, lastScrape, scrapeInterval, usageState, tokensTotal,
                   stateMu, pc, call, fetch, cpc, win, obs, incs, fetched,
                   drawn, resolverVars, input>>

(* dayBoundsUTC. Its code is not in the source files; main_test.go:117-157  *)
(* calls it with a time.Time and expects the Unix times of the start of     *)
(* the UTC day of the instant and of the start of the next day. A           *)
(* time.Time is an instant, unix, and the offset of its zone from UTC, in   *)
(* seconds.                                                                 *)

Day == 86400

\* mutant: the day of the wall clock of the time's own zone
dayBoundsLocal(t) ==
    LET start == ((t.unix + t.offset) \div Day) * Day - t.offset IN
    [start |-> start, end |-> start + Day]

dayBoundsUTC(t) ==
    LET start == (t.unix \div Day) * Day IN
    [start |-> start, end |-> start + Day]

\* main_test.go:124-148: the instants and zones tried: the day before the
\* epoch, the first day, and 2024-01-15; UTC, EST and UTC+14
DaysTried == {0 - 1, 0, 19737}
SecondsTried == {0, 1, 52245, 70245, 86399}
OffsetsTried == {0 - 18000, 0, 50400}
TimesTried ==
    { [unix |-> d * Day + sec, offset |-> off] :
        d \in DaysTried, sec \in SecondsTried, off \in OffsetsTried }

\* main_test.go:152
ApplyDayBoundsUTC ==
    /\ input.op = "dayBoundsUTC"
    /\ output = NoOutput
    /\ output' = [op |-> "dayBoundsUTC"] @@ dayBoundsUTC(input.t)
    /\ UNCHANGED <<now, lastScrape, scrapeInterval, usageState, tokensTotal,
                   stateMu, pc, call, fetch, cpc, win, obs, incs, fetched,
                   drawn, resolverVars, input>>

\* the values of a dimension in the observations whose keys are compared:
\* one without the separator of the key and one that holds it
KeyValues == {"a", "a|a"}

\* the observations whose keys are compared: the labels fetchUsageData
\* builds (main.go:247-254), the sub-measure and the bucket start
KeyObservations ==
    { [labels |-> [model |-> "gpt-4", operation |-> usageEndpoints[1].Name,
                   project_id |-> p, user_id |-> u, api_key_id |-> k,
                   batch |-> "false"],
       tokenType |-> tt, bucketStart |-> b] :
        p \in KeyValues, u \in KeyValues, k \in KeyValues,
        tt \in {TokenTypes[1], TokenTypes[2]},
        b \in {Epoch, Epoch + BucketWidth} }

\* main.go:174-183: the keys updateMetric builds for two observations
ApplyCompositeKey ==
    /\ input.op = "compositeKey"
    /\ output = NoOutput
    /\ output' = [op |-> "compositeKey",
                  first |-> compositeKey(input.first.labels,
                                         input.first.tokenType,
                                         input.first.bucketStart),
                  second |-> compositeKey(input.second.labels,
                                          input.second.tokenType,
                                          input.second.bucketStart)]
    /\ UNCHANGED <<now, lastScrape, scrapeInterval, usageState, tokensTotal,
                   stateMu, pc, call, fetch, cpc, win, obs, incs, fetched,
                   drawn, resolverVars, input>>

\* the operations applied and their arguments
FnInputs ==
    { [op |-> "UnmarshalJSON", value |-> v] : v \in JSONValues }
    \cup { [op |-> "decode", obj |-> o] : o \in ResultObjects }
    \cup { [op |-> "main", env |-> e] :
             e \in [OPENAI_SECRET_KEY : EnvValues("sk-test"),
                    OPENAI_ORG_ID : EnvValues("org-123")] }
    \cup { [op |-> "dayBoundsUTC", t |-> t] : t \in TimesTried }
    \cup { [op |-> "compositeKey", first |-> a, second |-> b] :
             a \in KeyObservations, b \in KeyObservations }

InitFn ==
    /\ now \in StartTimes
    /\ lastScrape = 0
    /\ scrapeInterval \in ScrapeIntervals
    /\ usageState = EmptyMap
    /\ tokensTotal = EmptyMap
    /\ stateMu = "free"
    /\ pc = [t \in Tasks |-> "idle"]
    /\ call = [t \in Tasks |-> NoCall]
    /\ fetch = [t \in Tasks |-> NoFetch]
    /\ cpc = "none"
    /\ win = NoWin
    /\ obs = EmptyMap
    /\ incs = EmptyMap
    /\ fetched = EmptyMap
    /\ drawn = NoneDrawn
    /\ ResolverIdle
    /\ input \in FnInputs
    /\ output = NoOutput

NextFn ==
    \/ ApplyUnmarshalJSON
    \/ ApplyDecodeResult
    \/ ApplyDayBoundsUTC
    \/ ApplyCompositeKey
    \/ MainNewExporter
    \/ MainGoCollect
    \/ MainListenAndServe
    \/ MainListenError

SpecFn == InitFn /\ [][NextFn]_vars

----------------------------------------------------------------------------
(* Properties of updateMetric, checked under SpecUM (C1 to C6 and C20) *)

IncsOf(k) == IF k \in DOMAIN incs THEN incs[k] ELSE <<>>

IsClosedObs(e) == e.closed

\* the calls of key k that found the bucket closed, in the order in which
\* they held the lock
ClosedObs(k) == SelectSeq(obs[k], IsClosedObs)

Max(a, b) == IF a >= b THEN a ELSE b

\* C1: all calls with the same composite key and a closed bucket increase the
\* counter exactly once, by the value of the first of them (the first to hold
\* the ledger lock); every later one adds nothing and the ledger keeps the
\* first value, whether the later value is the same or another one.
C1_ClosedKeyPublishedOnce ==
    /\ \A k \in DOMAIN incs : Len(incs[k]) <= 1
    /\ \A k \in DOMAIN obs :
          LET cl == ClosedObs(k) IN
          cl # <<>> =>
             /\ IncsOf(k) = << cl[1].value >>
             /\ cl[1].inc = cl[1].value
             /\ \A i \in 2..Len(cl) : cl[i].inc = 0
             /\ k \in DOMAIN usageState
             /\ usageState[k] = cl[1].value

\* C1 witness: two closed calls of one key with different values have returned
C1_Witness ==
    \E k \in DOMAIN obs :
        /\ Len(ClosedObs(k)) >= 2
        /\ ClosedObs(k)[1].value # ClosedObs(k)[2].value
        /\ \A t \in Tasks : pc[t] = "idle"

\* C2 as stated: whenever no call is inside the critical section, the sum of
\* the increments of a key equals the value of its most recent observation.
C2_SumIsLastObserved ==
    stateMu = "free" =>
       \A k \in DOMAIN obs : SumSeq(IncsOf(k)) = obs[k][Len(obs[k])].value

\* C2 amended: whenever no call is inside the critical section, the sum of the
\* increments of a key equals the value of the first observation of the key
\* made with its bucket closed, and is zero while there is none.
C2_SumIsFirstClosed ==
    stateMu = "free" =>
       \A k \in DOMAIN obs \cup DOMAIN incs :
           /\ k \in DOMAIN obs
           /\ SumSeq(IncsOf(k)) =
                 (IF ClosedObs(k) = <<>> THEN 0 ELSE ClosedObs(k)[1].value)

\* C2 witness: the most recent closed observation of a key carries more than
\* its first one, and the increments sum to the first
C2_Witness ==
    \E k \in DOMAIN obs :
        /\ stateMu = "free"
        /\ Len(ClosedObs(k)) >= 2
        /\ obs[k][Len(obs[k])].closed
        /\ obs[k][Len(obs[k])].value > ClosedObs(k)[1].value
        /\ SumSeq(IncsOf(k)) = ClosedObs(k)[1].value

\* C3 as stated: an open bucket observed with v1 and then with v2 produces the
\* increments v1 and max(0, v2 - v1).
C3_OpenBucketDelta ==
    \A k \in DOMAIN obs :
        (Len(obs[k]) >= 2 /\ ~obs[k][1].closed /\ ~obs[k][2].closed) =>
           /\ obs[k][1].inc = obs[k][1].value
           /\ obs[k][2].inc = Max(0, obs[k][2].value - obs[k][1].value)

\* C3 amended: every observation of an open bucket produces the increment 0,
\* whatever v1 and v2 are; a key observed only with its bucket open has no
\* ledger entry and no increment; the first observation made once the bucket
\* is closed publishes its value in full.
C3_OpenBucketNoIncrement ==
    \A k \in DOMAIN obs :
        /\ \A i \in 1..Len(obs[k]) : ~obs[k][i].closed => obs[k][i].inc = 0
        /\ (stateMu = "free" /\ ClosedObs(k) = <<>>) =>
              (k \notin DOMAIN usageState /\ IncsOf(k) = <<>>)
        /\ ClosedObs(k) # <<>> => ClosedObs(k)[1].inc = ClosedObs(k)[1].value

\* C3 witness: a key observed open with v1 and then open with v2 > v1, with
\* nothing published
C3_Witness ==
    \E k \in DOMAIN obs :
        /\ Len(obs[k]) >= 2
        /\ ~obs[k][1].closed /\ ~obs[k][2].closed
        /\ obs[k][2].value > obs[k][1].value
        /\ k \notin DOMAIN usageState
        /\ IncsOf(k) = <<>>

\* C4: a call for a bucket that is not yet completed (bucketEnd > now when the
\* call reads the clock) returns at once and changes neither the ledger nor
\* the counters.
C4_OpenBucketChangesNothing ==
    [][ \A t \in Tasks :
          (pc[t] = "um_now" /\ pc'[t] # "um_now" /\ call[t].bucketEnd > now) =>
             /\ pc'[t] = "um_ret"
             /\ usageState' = usageState
             /\ tokensTotal' = tokensTotal
             /\ stateMu' = stateMu ]_vars

\* C4 witness: a call with a positive value for a still open bucket has returned
C4_Witness ==
    \E t \in Tasks :
        /\ pc[t] = "um_ret"
        /\ call[t].bucketEnd > now
        /\ call[t].newValue > 0
        /\ call[t].added = 0

\* C5: a call for a closed bucket (bucketEnd <= now, bucketEnd = now included)
\* whose key is not in the ledger goes on to the critical section, adds
\* exactly the value to exactly the key's series, records ledger[key] = value,
\* and changes no other ledger entry and no other series.
C5_NewClosedKeyPublished ==
    [][ \A t \in Tasks :
          LET c == call[t]
              s == SeriesOf(call[t])
              k == call[t].compositeKey IN
          /\ (pc[t] = "um_now" /\ pc'[t] # "um_now" /\ c.bucketEnd <= now) =>
                pc'[t] = "um_lock"
          /\ (pc[t] = "um_exists" /\ pc'[t] # "um_exists" /\ k \notin DOMAIN usageState) =>
                /\ pc'[t] = "um_add"
                /\ usageState' = usageState /\ tokensTotal' = tokensTotal
          /\ (pc[t] = "um_add" /\ pc'[t] # "um_add") =>
                /\ pc'[t] = "um_store"
                /\ DOMAIN tokensTotal' = DOMAIN tokensTotal \cup {s}
                /\ tokensTotal'[s] =
                      (IF s \in DOMAIN tokensTotal THEN tokensTotal[s] ELSE 0) + c.newValue
                /\ \A x \in DOMAIN tokensTotal \ {s} : tokensTotal'[x] = tokensTotal[x]
                /\ usageState' = usageState
          /\ (pc[t] = "um_store" /\ pc'[t] # "um_store") =>
                /\ pc'[t] = "um_ret"
                /\ DOMAIN usageState' = DOMAIN usageState \cup {k}
                /\ usageState'[k] = c.newValue
                /\ \A x \in DOMAIN usageState \ {k} : usageState'[x] = usageState[x]
                /\ tokensTotal' = tokensTotal ]_vars

\* C5 witness: a call whose bucket ends at this very second has published its
\* positive value under a new key, beside an older ledger entry
C5_Witness ==
    \E t \in Tasks :
        /\ pc[t] = "um_ret"
        /\ call[t].bucketEnd = now
        /\ call[t].newValue > 0
        /\ call[t].added = call[t].newValue
        /\ call[t].compositeKey \in DOMAIN usageState
        /\ usageState[call[t].compositeKey] = call[t].newValue
        /\ tokensTotal[SeriesOf(call[t])] >= call[t].newValue
        /\ Cardinality(DOMAIN usageState) >= 2

\* C6: the value of every counter series never decreases from one state to
\* the next, and no series disappears.
C6_CountersMonotonic ==
    [][ \A s \in DOMAIN tokensTotal :
          s \in DOMAIN tokensTotal' /\ tokensTotal'[s] >= tokensTotal[s] ]_vars

\* C6 witness: a key was observed closed with a value lower than the one
\* published for it before, and its series still holds the published value
C6_Witness ==
    \E t \in Tasks :
        LET k == call[t].compositeKey IN
        /\ pc[t] = "um_ret"
        /\ k \in DOMAIN obs
        /\ Len(obs[k]) >= 2
        /\ obs[k][1].inc > 0
        /\ obs[k][Len(obs[k])].value < obs[k][1].value
        /\ obs[k][Len(obs[k])].closed
        /\ tokensTotal[SeriesOf(call[t])] >= obs[k][1].inc

----------------------------------------------------------------------------
(* Claims about the collection loop of the ledger revision, checked under   *)
(* Spec                                                                     *)

Range(seq) == {seq[i] : i \in 1..Len(seq)}

\* C7: a bucket that updateMetric skipped because it was still open is
\* fetched again in a later cycle and then published. Every later cycle
\* queries a window that starts at the cursor or after it, so a key that was
\* skipped open and is not in the ledger yet must not lie before the cursor.
C7_DeferredBucketStillAhead ==
    \A k \in DOMAIN obs :
        ( /\ \E i \in 1..Len(obs[k]) : ~obs[k][i].closed
          /\ k \notin DOMAIN usageState )
        => \A i \in 1..Len(obs[k]) : obs[k][i].bucketStart >= lastScrape

\* C8: a window whose fetch failed for a resource type is queried again by a
\* later cycle. Every later cycle queries a window that starts at the cursor
\* or after it, so a window that no fetch of the resource type has completed
\* for must not lie before the cursor.
C8_FailedWindowStillAhead ==
    \A w \in DOMAIN fetched :
        "ok" \notin Range(fetched[w]) => w[2] >= lastScrape

\* the calls of a returned fetch that found their bucket closed
ClosedCalls(f) == {i \in 1..Len(f.calls) : f.calls[i].closed}

\* C10: whatever the other tasks of the cycle do, a task that returns
\* without error has made every updateMetric call its pages asked for; for
\* every closed bucket among them the ledger holds the key, and the first
\* call of a key in the fetch either passed its value to Add in full or found
\* the key already published; and a task that has returned holds no lock
\* another task could wait for.
C10_PartialFailureIsolated ==
    \A t \in Tasks :
        pc[t] = "done" =>
            /\ stateMu # t
            /\ ~fetch[t].err =>
                  /\ Len(fetch[t].calls) = fetch[t].decoded
                  /\ <<t, fetch[t].startTime>> \in DOMAIN fetched
                  /\ "ok" \in Range(fetched[<<t, fetch[t].startTime>>])
                  /\ \A i \in ClosedCalls(fetch[t]) :
                        LET c == fetch[t].calls[i] IN
                        /\ c.compositeKey \in DOMAIN usageState
                        /\ \/ c.added = c.newValue
                              /\ usageState[c.compositeKey] = c.newValue
                           \/ /\ c.added = 0
                              /\ \E j \in ClosedCalls(fetch[t]) :
                                    /\ j < i
                                    /\ fetch[t].calls[j].compositeKey = c.compositeKey

\* the outcome of the last fetch of task t's window
LastOutcome(t) ==
    LET w == <<t, fetch[t].startTime>> IN
    IF w \in DOMAIN fetched THEN fetched[w][Len(fetched[w])] ELSE "none"

\* C11: fetchUsageData sends one request per page: while a call runs, every
\* request it has sent was answered and decoded; a call that returned an
\* error returned it on the request that failed, the one after its last
\* decoded page, and sent nothing after it; a call that returned nil sent
\* exactly one request per decoded page; and the caller sees an error
\* exactly when a request failed.
C11_ErrorEndsCallNoRetry ==
    \A t \in Tasks :
        /\ pc[t] \notin {"idle", "done"} =>
              /\ fetch[t].requests = fetch[t].page
              /\ ~fetch[t].err
        /\ pc[t] = "done" =>
              /\ fetch[t].requests = fetch[t].page + (IF fetch[t].err THEN 1 ELSE 0)
              /\ fetch[t].err <=> LastOutcome(t) = "error"

\* C11 witness: a call returned an error on the request of a follow-up page,
\* after publishing a record of the first page
C11_Witness ==
    \E t \in Tasks :
        /\ pc[t] = "done"
        /\ fetch[t].err
        /\ fetch[t].page >= 1
        /\ fetch[t].requests = 2
        /\ \E i \in ClosedCalls(fetch[t]) : fetch[t].calls[i].added > 0

\* C10 witness: in one cycle a task has failed and another has returned
\* without error after publishing a record
C10_Witness ==
    \E t, u \in Tasks :
        /\ t # u
        /\ pc[t] = "done" /\ fetch[t].err
        /\ pc[u] = "done" /\ ~fetch[u].err
        /\ fetch[u].decoded > 0
        /\ \E i \in ClosedCalls(fetch[u]) :
              /\ fetch[u].calls[i].added > 0
              /\ tokensTotal[SeriesOf(fetch[u].calls[i])] >= fetch[u].calls[i].added

----------------------------------------------------------------------------
(* Claim about the lookback-window revision, checked under SpecLookback *)

\* C9: a bucket that lies inside the windows of two or more cycles increases
\* its counter series by its value only once in total: the values added for
\* a bucket key sum to the value of the bucket.
C9_OverlapCountedOnce ==
    \A k \in DOMAIN incs : SumSeq(incs[k]) = incs[k][1]

----------------------------------------------------------------------------
(* Claims about the reference name resolver, checked under SpecResolve *)

\* caller c is inside a call of ensureProjectName
InCall(c) == resolve[c].pc # "idle"

\* C12: a step of a call with the empty or the "unknown" identifier leaves
\* the cache and the history of reference fetches as they are, whatever the
\* cache holds; the call goes from its start straight to its return, and it
\* returns "unknown" having made no fetch.
C12_UnknownAnsweredAtOnce ==
    [][ \A c \in Callers :
          ( /\ resolve'[c] # resolve[c]
            /\ \/ InCall(c) /\ resolve[c].projectID \in {"", "unknown"}
               \/ resolve'[c].pc # "idle" /\ resolve'[c].projectID \in {"", "unknown"} )
          => /\ projectNames' = projectNames
             /\ netCalls' = netCalls
             /\ resolve'[c].pc \in {"ret", "idle"}
             /\ resolve'[c].pc = "ret" =>
                   /\ resolve'[c].result = "unknown"
                   /\ resolve'[c].fetches = 0 ]_vars

\* C12 witness: a call with "unknown" is about to return "unknown" while the
\* cache holds a fetched name
C12_Witness ==
    \E c \in Callers :
        /\ resolve[c].pc = "ret"
        /\ resolve[c].projectID = "unknown"
        /\ resolve[c].result = "unknown"
        /\ resolve[c].fetches = 0
        /\ \E id \in DOMAIN projectNames : projectNames[id] = ProjectNameOf(id)

\* C13 as stated: two successive calls of a caller for the same identifier
\* make at most one reference fetch between them.
C13_TwoCallsOneFetch ==
    \A c \in Callers :
        ( /\ InCall(c)
          /\ resolve[c].prev.called
          /\ resolve[c].prev.projectID = resolve[c].projectID )
        => resolve[c].prev.fetches + resolve[c].fetches <= 1

\* C13 as amended: once a call has returned a name for an identifier, the
\* cache holds that name; a cached name is never changed or removed; and a
\* call whose lookup finds the identifier cached returns the cached name,
\* makes no fetch and leaves the cache as it is.
C13_CachedNameServed ==
    /\ [] \A c \in Callers :
            ( /\ resolve[c].prev.called
              /\ resolve[c].prev.projectID \notin {"", "unknown"}
              /\ resolve[c].prev.result # "unknown" )
            => /\ resolve[c].prev.projectID \in DOMAIN projectNames
               /\ projectNames[resolve[c].prev.projectID] = resolve[c].prev.result
               /\ ( InCall(c) /\ resolve[c].projectID = resolve[c].prev.projectID )
                     => /\ resolve[c].fetches = 0
                        /\ resolve[c].pc \in {"lookup", "ret"}
                        /\ resolve[c].pc = "ret" =>
                              resolve[c].result = resolve[c].prev.result
    /\ [][ /\ \A id \in DOMAIN projectNames :
                /\ id \in DOMAIN projectNames'
                /\ projectNames'[id] = projectNames[id]
           /\ \A c \in Callers :
                ( /\ resolve[c].pc = "lookup"
                  /\ resolve'[c] # resolve[c]
                  /\ resolve[c].projectID \in DOMAIN projectNames )
                => /\ resolve'[c].pc = "ret"
                   /\ resolve'[c].result = projectNames[resolve[c].projectID]
                   /\ resolve'[c].fetches = 0
                   /\ projectNames' = projectNames
                   /\ netCalls' = netCalls ]_vars

\* C13 witness: the second of two successive calls for an identifier is
\* about to return the name the first one fetched, having made no fetch
C13_Witness ==
    \E c \in Callers :
        /\ resolve[c].pc = "ret"
        /\ resolve[c].prev.called
        /\ resolve[c].prev.projectID = resolve[c].projectID
        /\ resolve[c].prev.fetches = 1
        /\ resolve[c].fetches = 0
        /\ resolve[c].result = ProjectNameOf(resolve[c].projectID)
        /\ Len(netCalls[resolve[c].projectID]) = 1

\* C14: a failed fetch returns "unknown" and leaves the cache exactly as it
\* was, so "unknown" is never cached; a lookup that misses goes on to fetch,
\* also after an earlier failure; and a call whose fetch succeeded returns
\* the real name and the cache holds it.
C14_FailureNotCached ==
    /\ [] /\ \A id \in DOMAIN projectNames : projectNames[id] # "unknown"
          /\ \A c \in Callers :
                ( resolve[c].pc = "ret" /\ resolve[c].fetches > 0 )
                => \/ resolve[c].result = "unknown"
                   \/ /\ resolve[c].result = ProjectNameOf(resolve[c].projectID)
                      /\ resolve[c].projectID \in DOMAIN projectNames
                      /\ projectNames[resolve[c].projectID] = resolve[c].result
    /\ [][ \A c \in Callers :
             /\ ( /\ resolve[c].pc = "fetch"
                  /\ resolve'[c] # resolve[c]
                  /\ netCalls' = MapAppend(netCalls, resolve[c].projectID, "error") )
                => /\ projectNames' = projectNames
                   /\ resolve'[c].pc = "ret"
                   /\ resolve'[c].result = "unknown"
             /\ ( /\ resolve[c].pc = "lookup"
                  /\ resolve'[c] # resolve[c]
                  /\ resolve[c].projectID \notin DOMAIN projectNames )
                => resolve'[c].pc = "fetch" ]_vars

\* C14 witness: a caller's call failed its fetch and returned "unknown", and
\* its next call for the same identifier fetched again, cached the real name
\* and is about to return it
C14_Witness ==
    \E c \in Callers :
        /\ resolve[c].pc = "ret"
        /\ resolve[c].prev.called
        /\ resolve[c].prev.projectID = resolve[c].projectID
        /\ resolve[c].prev.result = "unknown"
        /\ resolve[c].prev.fetches = 1
        /\ resolve[c].fetches = 1
        /\ resolve[c].result = ProjectNameOf(resolve[c].projectID)
        /\ projectNames[resolve[c].projectID] = resolve[c].result

\* C15: the resolver is single-flight per key: unless a fetch for the
\* identifier failed, at most one reference fetch is made for it, however the
\* callers interleave.
C15_SingleFlight ==
    \A id \in DOMAIN netCalls :
        "error" \notin Range(netCalls[id]) => Len(netCalls[id]) <= 1

\* the counter series of the calls made with key k
SeriesOfKey(k) == obs[k][1].series

\* the sum of the values the ledger records for the keys of a set
RECURSIVE LedgerSum(_)
LedgerSum(keys) ==
    IF keys = {} THEN 0
    ELSE LET k == CHOOSE x \in keys : TRUE IN
         usageState[k] + LedgerSum(keys \ {k})

\* C20: whenever no task is inside the ledger critical section, the
\* increments published for each ledger key sum to the value the ledger
\* records for it, no increment was published for a key the ledger does not
\* hold, and each counter series equals the sum of the recorded values of the
\* ledger keys of that series.
C20_LedgerMatchesCounter ==
    stateMu = "free" =>
        /\ \A k \in DOMAIN usageState : SumSeq(IncsOf(k)) = usageState[k]
        /\ \A k \in DOMAIN incs : k \in DOMAIN usageState
        /\ \A k \in DOMAIN usageState : k \in DOMAIN obs
        /\ \A k \in DOMAIN usageState : SeriesOfKey(k) \in DOMAIN tokensTotal
        /\ \A sr \in DOMAIN tokensTotal :
              tokensTotal[sr] =
                  LedgerSum({ k \in DOMAIN usageState : SeriesOfKey(k) = sr })

\* C20 witness: the lock is free and one series holds the sum of the values
\* of two ledger keys, both positive
C20_Witness ==
    /\ stateMu = "free"
    /\ \E k1, k2 \in DOMAIN usageState :
          /\ k1 # k2
          /\ SeriesOfKey(k1) = SeriesOfKey(k2)
          /\ usageState[k1] > 0
          /\ usageState[k2] > 0
          /\ tokensTotal[SeriesOfKey(k1)] = usageState[k1] + usageState[k2]

----------------------------------------------------------------------------
(* Properties of the operations applied on their own, checked under SpecFn *)

\* C16: NewExporter returns an error exactly when OPENAI_SECRET_KEY or
\* OPENAI_ORG_ID is empty, the error names the missing variable and the
\* secret key is checked first; otherwise the exporter holds both values.
\* After an error main has started neither the collection loop nor the
\* HTTP server and the process has ended.
C16_NewExporterChecksEnv ==
    ( input.op = "main" /\ output # NoOutput ) =>
        LET key == input.env.OPENAI_SECRET_KEY
            org == input.env.OPENAI_ORG_ID
        IN
        /\ ( output.err # "" ) <=> ( key = "" \/ org = "" )
        /\ key = ""
           => output.err = "OPENAI_SECRET_KEY environment variable is not set"
        /\ ( key # "" /\ org = "" )
           => output.err = "OPENAI_ORG_ID environment variable is not set"
        /\ output.err = ""
           => output.exporter = Ptr([apiKey |-> key, orgID |-> org])
        /\ output.err # ""
           => /\ output.exporter = Nil
              /\ output.pc = "exited"
              /\ ~output.collecting
              /\ ~output.serving

\* C16 witness: both variables are empty, the error names the secret key and
\* the process has ended with nothing started
C16_Witness ==
    /\ input.op = "main"
    /\ input.env.OPENAI_SECRET_KEY = ""
    /\ input.env.OPENAI_ORG_ID = ""
    /\ output # NoOutput
    /\ output.err = "OPENAI_SECRET_KEY environment variable is not set"
    /\ output.pc = "exited"
    /\ ~output.collecting
    /\ ~output.serving

\* C17: decoding the batch field maps null to "unknown", a JSON string to
\* the string it encodes, true to "true" and false to "false"; a number, an
\* array or an object yields an error and no value.
C17_BatchDecoding ==
    ( input.op = "UnmarshalJSON" /\ output # NoOutput ) =>
        LET v == input.value IN
        /\ v.kind = "null" => ( ~output.err /\ output.s = "unknown" )
        /\ v.kind = "string" => ( ~output.err /\ output.s = Text(v.chars) )
        /\ v.kind = "true" => ( ~output.err /\ output.s = "true" )
        /\ v.kind = "false" => ( ~output.err /\ output.s = "false" )
        /\ v.kind \in {"number", "array", "object"}
           => ( output.err /\ output.s = "" )

\* C17 witness: a JSON string with an escaped character was decoded to the
\* string it encodes
C17_Witness ==
    /\ input.op = "UnmarshalJSON"
    /\ input.value.kind = "string"
    /\ Len(input.value.chars) > 0
    /\ Len(input.value.b) > Len(input.value.chars) + 2
    /\ output # NoOutput
    /\ ~output.err
    /\ output.s = Text(input.value.chars)

\* C18: every dimension of a decoded usage record (model, project id, user
\* id, api-key id, batch) whose field is missing or null is "unknown" in the
\* labels and in the composite key, and a string value, the empty string
\* too, is passed through unchanged.
C18_MissingIsUnknown ==
    ( input.op = "decode" /\ output # NoOutput /\ ~output.err ) =>
        LET Want(field) ==
                IF field \in {Missing, JSONNull} THEN {"unknown"}
                ELSE IF field = EncodeString(<<>>) THEN {""}
                ELSE IF field = EncodeString(<<"a">>) THEN {"a"}
                ELSE {"true", "false"}
            obj == input.obj
        IN
        /\ output.labels["model"] \in Want(obj.model)
        /\ output.labels["project_id"] \in Want(obj.project_id)
        /\ output.labels["user_id"] \in Want(obj.user_id)
        /\ output.labels["api_key_id"] \in Want(obj.api_key_id)
        /\ output.labels["batch"] \in Want(obj.batch)
        /\ \E b \in Want(obj.batch) :
              output.compositeKey =
                  Join(<< output.labels["operation"], ToString(Epoch),
                          CHOOSE x \in Want(obj.project_id) : TRUE,
                          CHOOSE x \in Want(obj.user_id) : TRUE,
                          CHOOSE x \in Want(obj.api_key_id) : TRUE,
                          CHOOSE x \in Want(obj.model) : TRUE,
                          b, TokenTypes[1] >>, "|")

\* C29: the composite key is injective on its components: two observations
\* get the same key only if they agree on resource type, bucket start,
\* project id, user id, api-key id, model, batch flag and sub-measure, also
\* for values that hold the separator.
C29_KeyInjective ==
    ( input.op = "compositeKey" /\ output # NoOutput ) =>
        ( output.first = output.second => input.first = input.second )

----------------------------------------------------------------------------
(* Further claims about the collection loop of the ledger revision,         *)
(* checked under Spec                                                       *)

\* C21: a page whose request or decode fails contributes no ledger entry and
\* no counter increment: the failing step leaves the ledger, the counters
\* and their histories as they are, and the call makes no updateMetric call
\* after it. After a failed fetchUsageData every updateMetric call of the
\* pages decoded before the failure has been made and has returned, so the
\* ledger holds the key of each of them that found its bucket closed.
C21_FailedPageNoEffect ==
    /\ [] \A t \in Tasks :
            ( pc[t] = "done" /\ fetch[t].err ) =>
                /\ Len(fetch[t].calls) = fetch[t].decoded
                /\ fetch[t].requests = fetch[t].page + 1
                /\ \A i \in 1..Len(fetch[t].calls) :
                      fetch[t].calls[i].closed
                      => fetch[t].calls[i].compositeKey \in DOMAIN usageState
    /\ [][ \A t \in Tasks :
             /\ ( pc[t] = "fetch_req" /\ pc'[t] = "done" /\ fetch'[t].err )
                => /\ usageState' = usageState
                   /\ tokensTotal' = tokensTotal
                   /\ incs' = incs
                   /\ obs' = obs
                   /\ fetch'[t].calls = fetch[t].calls
                   /\ fetch'[t].decoded = fetch[t].decoded
             /\ pc[t] = "done" => pc'[t] \in {"done", "idle"} ]_vars

\* C21 witness: a call failed on its second page after a record of its first
\* page was published, and the ledger and the counter hold that record
C21_Witness ==
    \E t \in Tasks :
        /\ pc[t] = "done"
        /\ fetch[t].err
        /\ fetch[t].page = 1
        /\ fetch[t].decoded = Len(TokenTypes)
        /\ \E i \in 1..Len(fetch[t].calls) :
              LET c == fetch[t].calls[i] IN
              /\ c.added > 0
              /\ usageState[c.compositeKey] = c.added
              /\ tokensTotal[SeriesOf(c)] = c.added

C23_OneCycleOneTaskPerType ==
    /\ [] /\ cpc # "wait" => \A t \in Tasks : pc[t] = "idle"
          /\ cpc = "wait" =>
                \A t \in Tasks :
                    /\ pc[t] # "idle"
                    /\ fetch[t].startTime = win.startTime
                    /\ fetch[t].endTime = win.endTime
          /\ Cardinality(Tasks) = Len(usageEndpoints)
    /\ [][ /\ ( \E t \in Tasks : pc[t] = "idle" /\ pc'[t] # "idle" )
              => /\ cpc = "start" /\ cpc' = "wait"
                 /\ \A t \in Tasks : pc[t] = "idle" /\ pc'[t] = "fetch_req"
           /\ ( cpc = "wait" /\ cpc' # "wait" )
              => \A t \in Tasks : pc[t] = "done" /\ pc'[t] = "idle" ]_vars

\* C23 witness: in the second cycle one task has returned and another is
\* inside updateMetric, both on the window of the cycle
C23_Witness ==
    /\ cpc = "wait"
    /\ win.cycle = 2
    /\ \E t, u \in Tasks :
          /\ pc[t] = "done"
          /\ pc[u] \in {"um_now", "um_lock", "um_exists", "um_add", "um_store"}
          /\ fetch[t].startTime = win.startTime
          /\ fetch[u].startTime = win.startTime

----------------------------------------------------------------------------
(* Claims about the ledger lock, checked under SpecUMFair *)

\* C24: the ledger is read and written only by the task that holds stateMu:
\* a task is between its existence check and its return exactly when it
\* holds the lock, and the ledger changes only in the store step of the
\* holder, which releases the lock; the existence check and the insertion
\* of a key are made without the lock being released in between; the holder
\* is never at a request; every task that waits for the lock gets it and
\* every holder releases it; and the calls for one key make at most one
\* increment, exactly one once a call for it with a closed bucket returned.
C24_LedgerUnderLock ==
    /\ [] /\ \A t \in Tasks :
                pc[t] \in {"um_exists", "um_add", "um_store"} <=> stateMu = t
          /\ \A t \in Tasks : stateMu = t => pc[t] # "fetch_req"
          /\ \A k \in DOMAIN incs : Len(incs[k]) <= 1
          /\ \A k \in DOMAIN obs :
                ( \E i \in 1..Len(obs[k]) : obs[k][i].closed )
                => Len(IncsOf(k)) = 1
    /\ [][ /\ usageState' # usageState
              => \E t \in Tasks :
                    /\ stateMu = t /\ pc[t] = "um_store"
                    /\ stateMu' = "free"
                    /\ call[t].compositeKey \notin DOMAIN usageState
                    /\ usageState' = MapSet(usageState, call[t].compositeKey,
                                            call[t].newValue)
           /\ \A t \in Tasks :
                 ( stateMu = t /\ stateMu' # t )
                 => stateMu' = "free" /\ pc'[t] = "um_ret" ]_vars
    /\ \A t \in Tasks : ( pc[t] = "um_lock" ) ~> ( stateMu = t )
    /\ \A t \in Tasks : ( stateMu = t ) ~> ( stateMu # t )

\* C24 witness: two calls for one unseen key were at the lock together, one
\* waiting while the other held it, and the key has one increment
C24_Witness ==
    \E t, u \in Tasks :
        /\ t # u
        /\ pc[t] = "um_store"
        /\ pc[u] = "um_lock"
        /\ call[t].compositeKey = call[u].compositeKey
        /\ call[u].closed
        /\ Len(IncsOf(call[t].compositeKey)) = 1

----------------------------------------------------------------------------
(* Claim about the order of the observations, checked under SpecUM *)

\* the observations made so far with the bucket closed: the key, the
\* position among the calls of the key, the value and the series
ClosedItems ==
    UNION { { [key |-> k, idx |-> i, value |-> obs[k][i].value,
               series |-> obs[k][i].series] :
                i \in {j \in 1..Len(obs[k]) : obs[k][j].closed} } :
            k \in DOMAIN obs }

\* the orders in which the elements of a set can be applied
Orders(S) ==
    { o \in [1..Cardinality(S) -> S] :
        \A i, j \in 1..Cardinality(S) : o[i] = o[j] => i = j }

\* main.go:192-202 applied to a ledger and a counter by one closed
\* observation, with no other call running
ApplyItem(st, it) ==
    IF it.key \in DOMAIN st.ledger
    THEN st
    ELSE [ledger |-> MapSet(st.ledger, it.key, it.value),
          counter |-> CounterAdd(st.counter, it.series, it.value)]

\* the ledger and the counter after the observations of a sequence were
\* applied one after another, from empty ones
RECURSIVE ApplyInOrder(_)
ApplyInOrder(o) ==
    IF Len(o) = 0 THEN [ledger |-> EmptyMap, counter |-> EmptyMap]
    ELSE ApplyItem(ApplyInOrder(SubSeq(o, 1, Len(o) - 1)), o[Len(o)])

\* C25 as stated: whenever no call is inside the critical section, the
\* ledger and the counters are what applying the closed observations made
\* so far gives in any order, also with several observations of one key.
C25_AnyOrderSameResult ==
    stateMu = "free" =>
        \A o \in Orders(ClosedItems) :
            ApplyInOrder(o) = [ledger |-> usageState, counter |-> tokensTotal]

\* C25 amended: the same, for collections in which all observations of one
\* key carry the same value.
C25_AnyOrderSameResultEqualValues ==
    ( /\ stateMu = "free"
      /\ \A a, b \in ClosedItems : a.key = b.key => a.value = b.value )
    => \A o \in Orders(ClosedItems) :
           ApplyInOrder(o) = [ledger |-> usageState, counter |-> tokensTotal]

\* C25 witness: two closed observations of one key with the same positive
\* value were applied by concurrent callers and all calls have returned
C25_Witness ==
    /\ stateMu = "free"
    /\ \A t \in Tasks : pc[t] = "idle"
    /\ \E a, b \in ClosedItems :
          /\ a.key = b.key /\ a.idx # b.idx
          /\ a.value = b.value /\ a.value > 0
          /\ usageState[a.key] = a.value

----------------------------------------------------------------------------
(* Claims about the pages and the records of fetchUsageData, checked under  *)
(* Spec                                                                     *)

\* the updateMetric calls the pages of a sequence ask for, in the order of
\* the pages, of their buckets and of their records
RECURSIVE CallsOfPages(_, _)
CallsOfPages(name, pages) ==
    IF pages = <<>> THEN <<>>
    ELSE PageCalls(name, Head(pages).Data) \o CallsOfPages(name, Tail(pages))

\* the updateMetric calls task t has made or started
CallsMade(t) ==
    IF pc[t] \in {"um_now", "um_lock", "um_exists", "um_add", "um_store", "um_ret"}
    THEN Append(fetch[t].calls, call[t])
    ELSE fetch[t].calls

RecordOf(t, i) ==
    LET n == Len(TokenTypes)
        first == ((i - 1) \div n) * n + 1
    IN {j \in first..(first + n - 1) : j <= Len(CallsMade(t))}

\* C27: the five sub-measures of a record are five series with five ledger
\* keys: the calls of one record name the five sub-measures in order and
\* differ pairwise in key and in series; a call that found its bucket closed
\* and has returned has its own ledger entry; a step changes the ledger only
\* by adding the key of the call that makes it, with that call's value, and
\* changes the counters only at the series of the call that makes it; and
\* whether a call publishes depends on its own key alone.
C27_SubMeasuresIndependent ==
    /\ [] \A t \in Tasks :
            LET made == CallsMade(t) IN
            \A i \in 1..Len(made) :
                /\ made[i].tokenType = TokenTypes[((i - 1) % Len(TokenTypes)) + 1]
                /\ \A j \in RecordOf(t, i) \ {i} :
                      /\ made[j].compositeKey # made[i].compositeKey
                      /\ SeriesOf(made[j]) # SeriesOf(made[i])
                /\ ( i <= Len(fetch[t].calls) /\ made[i].closed )
                   => /\ made[i].compositeKey \in DOMAIN usageState
                      /\ SeriesOf(made[i]) \in DOMAIN tokensTotal
                      /\ Len(IncsOf(made[i].compositeKey)) = 1
    /\ [][ /\ usageState' # usageState
              => \E t \in Tasks :
                    /\ pc[t] = "um_store"
                    /\ call[t].compositeKey \notin DOMAIN usageState
                    /\ usageState' = MapSet(usageState, call[t].compositeKey,
                                            call[t].newValue)
           /\ tokensTotal' # tokensTotal
              => \E t \in Tasks :
                    /\ pc[t] = "um_add"
                    /\ tokensTotal' = CounterAdd(tokensTotal, SeriesOf(call[t]),
                                                 call[t].newValue)
           /\ \A t \in Tasks :
                 ( pc[t] = "um_exists" /\ pc'[t] # "um_exists" )
                 => ( pc'[t] = "um_add"
                      <=> call[t].compositeKey \notin DOMAIN usageState ) ]_vars

\* C27 witness: the five calls of a record were made with the bucket closed:
\* five ledger keys and five series, the input series with the input count
\* and the input_cached series with its zero
C27_Witness ==
    \E t \in Tasks :
        /\ Len(fetch[t].calls) = Len(TokenTypes)
        /\ \A i \in 1..Len(TokenTypes) :
              /\ fetch[t].calls[i].closed
              /\ usageState[fetch[t].calls[i].compositeKey]
                    = fetch[t].calls[i].newValue
              /\ tokensTotal[SeriesOf(fetch[t].calls[i])]
                    = fetch[t].calls[i].newValue
        /\ fetch[t].calls[1].newValue > 0
        /\ fetch[t].calls[3].newValue = 0
        /\ Cardinality(DOMAIN usageState) = Len(TokenTypes)
        /\ Cardinality(DOMAIN tokensTotal) = Len(TokenTypes)

----------------------------------------------------------------------------
(* Claim about the lifetime of ledger entries, checked under SpecUM *)

\* C28: ledger entries are permanent: from one state to the next every key
\* of the ledger stays in it, and the value recorded for a key stays what it
\* was when first recorded.
C28_LedgerEntriesPermanent ==
    [][ \A k \in DOMAIN usageState :
          /\ k \in DOMAIN usageState'
          /\ usageState'[k] = usageState[k] ]_vars

\* C28 witness: a later observation of a ledger key, with its bucket closed
\* and another value, has returned and left the recorded value as it was
C28_Witness ==
    /\ stateMu = "free"
    /\ \E k \in DOMAIN usageState :
          /\ Len(obs[k]) >= 2
          /\ obs[k][Len(obs[k])].closed
          /\ obs[k][Len(obs[k])].value # usageState[k]
          /\ obs[k][1].value = usageState[k]

\* C30: the five sub-measures of a record are treated alike: the calls of
\* one record that have returned either all found the bucket closed, and
\* were published and recorded, or all found it open and were skipped, also
\* when the clock passes the bucket's end between them.
C30_RecordAllOrNothing ==
    \A t \in Tasks :
        \A i \in 1..Len(fetch[t].calls) :
            \A j \in RecordOf(t, i) :
                j <= Len(fetch[t].calls)
                => fetch[t].calls[j].closed = fetch[t].calls[i].closed

----------------------------------------------------------------------------
(* Claim about the window and the wall clock, checked under Spec *)

\* C31: when the tasks of a cycle start, the end of the queried window is
\* not later than the wall clock; the clock never goes back, so this is the
\* same as: while a cycle runs, the end of its window is not later than the
\* clock, and no bucket of the window is open when it is processed.
C31_WindowEndNotAfterNow ==
    cpc = "wait" => win.endTime <= now

----------------------------------------------------------------------------
(* Claims about the answers of the upstream, checked under SpecUpstream *)

\* C32: every usage cycle completes: every fetchUsageData call that is at a
\* request returns, whatever pages the upstream answers, and collect passes
\* its barrier.
C32_EveryCycleCompletes ==
    /\ \A t \in Tasks : ( pc[t] = "fetch_req" ) ~> ( pc[t] = "done" )
    /\ ( cpc = "wait" ) ~> ( cpc = "sleep" )

\* C33: fetchUsageData returns nil only if every page of the window was
\* answered with a success status.
C33_NilOnlyAfterSuccessStatus ==
    \A t \in Tasks :
        ( pc[t] = "done" /\ ~fetch[t].err )
        => \A i \in 1..Len(fetch[t].got) : fetch[t].got[i].Status = 200

====
